---- MODULE Spec2Model ----
(***************************************************************************)
(* A model of the Raddish key-value server: the expiring store             *)
(* (src/src/expiring_store.py), the command validator                      *)
(* (src/src/validator.py), the command dispatcher with its handlers        *)
(* (src/src/command_handler.py, src/src/event_handler.py), the TCP worker  *)
(* over ExpiringDict (src/server.py, src/src/expiration_manager.py) and    *)
(* the cache manager (src/src/cache_handler.py) with its event bus, its   *)
(* persistence directory and its background threads.                       *)
(*                                                                         *)
(* Time is a natural number that only grows (time.time()).  Every method   *)
(* of ExpiringStore that runs under self._lock is one atomic step; a       *)
(* command handler that makes several store calls is a sequence of such    *)
(* steps, between which the clock and the reaper thread may run.           *)
(***************************************************************************)
EXTENDS Integers, Sequences, FiniteSets, TLC

\* ---------------------------------------------------------------- bounds
MaxTime == 3
MaxTtl == 1
MaxCmds == 3
MaxTokens == 4
MaxCalls == 3

\* ------------------------------------------------------- value universes
Keys == {"k1", "k2"}
Vals == {"v1", "v2"}
\* Python None as a stored value or a return value
PyNone == "<None>"
\* the default argument of get() used by the GET handler
NullDefault == "NULL"
\* expiry field of an entry that never expires (Python None)
NoExpiry == -1
\* an absent ttl argument / an unconfigured default_ttl (Python None)
NoTtl == -1
Ttls == 0..MaxTtl

VARIABLES
    now,          \* time.time()
    store,        \* ExpiringStore._store: insertion-ordered sequence of entries
    default_ttl,  \* ExpiringStore.default_ttl
    last,         \* the last store-level call and what it returned
    wrote,        \* per key: the (value, deadline) of the latest set() not
                  \* followed by a delete, clear or prepend of that key
    conn,         \* the connection worker: command in progress and position
    replies,      \* per send_response call, the number of the command answered
    nrecv,        \* number of commands handed to handle_command
    stats,        \* CacheHandler._stats: cache name -> stats block
    events,       \* the events delivered to a global observer, in order
    made,         \* per stats block: the ttl its cache was created with and
                  \* the get() calls made since the block was created or reset
    calls,        \* number of calls made on the cache manager
    bus,          \* the event bus: _event_handlers, _global_handlers and
                  \* the delivery in progress
    disk,         \* the persistence directory: file name -> payload
    mgr,          \* the cache manager's persistence settings and its
                  \* auto-persist thread
    thr           \* the threads of the ExpiringStore: stop flag, reaper,
                  \* callers inside set() or stop()

\* the state of the cache manager beside its store
cacheVars == <<stats, events, made, calls>>

\* the event bus, the persistence directory and the threads
sysVars == <<bus, disk, mgr, thr>>

vars == <<now, store, default_ttl, last, wrote, conn, replies, nrecv,
          stats, events, made, calls, bus, disk, mgr, thr>>

\* -------------------------------------------------- the ordered dictionary
Entry(k, v, e) == [key |-> k, value |-> v, expiry |-> e]

KeyList(s) == [i \in 1..Len(s) |-> s[i].key]

HasKey(s, k) == \E i \in 1..Len(s) : s[i].key = k

IndexOf(s, k) == CHOOSE i \in 1..Len(s) : s[i].key = k

\* the set {entry of k} or {}
ItemOf(s, k) == {<<s[i].value, s[i].expiry>> : i \in {j \in 1..Len(s) : s[j].key = k}}

\* (mutant) an assignment to a key already held is lost
DictAssignKeepsOld(s, k, v, e) ==
    IF HasKey(s, k) THEN s ELSE Append(s, Entry(k, v, e))

\* self._store[key] = (value, expiry): an existing key keeps its position
DictAssign(s, k, v, e) ==
    IF HasKey(s, k)
    THEN [s EXCEPT ![IndexOf(s, k)] = Entry(k, v, e)]
    ELSE Append(s, Entry(k, v, e))

\* del self._store[key]
DictDel(s, k) == SelectSeq(s, LAMBDA x : x.key # k)

\* ------------------------------------------------------- ExpiringStore
\* (mutant) the default_ttl is not applied
SetExpiryNoDefault(ttl, dflt, t) == IF ttl # NoTtl THEN t + ttl ELSE NoExpiry

\* expiry computed by set(): ttl, else default_ttl, else none
SetExpiry(ttl, dflt, t) ==
    LET eff == IF ttl # NoTtl THEN ttl ELSE dflt
    IN  IF eff # NoTtl THEN t + eff ELSE NoExpiry

StoreSet(s, k, v, ttl, dflt, t) == DictAssign(s, k, v, SetExpiry(ttl, dflt, t))

\* (mutant) an entry is still read at the instant it expires
LiveInclusive(e, t) == e = NoExpiry \/ e >= t

\* the read test of get(): expiry is None or expiry > time.time()
Live(e, t) == e = NoExpiry \/ e > t

\* get(): the returned value and the store it leaves behind
GetRet(s, k, d, t) ==
    IF ~HasKey(s, k) THEN d
    ELSE IF Live(s[IndexOf(s, k)].expiry, t) THEN s[IndexOf(s, k)].value
    ELSE d

GetStore(s, k, t) ==
    IF HasKey(s, k) /\ ~Live(s[IndexOf(s, k)].expiry, t) THEN DictDel(s, k) ELSE s

\* __contains__: self.get(key) is not None
Contains(s, k, t) == GetRet(s, k, PyNone, t) # PyNone

\* expiry computed by prepend(): ttl only, default_ttl is not consulted
PrependExpiry(ttl, t) == IF ttl # NoTtl THEN t + ttl ELSE NoExpiry

\* {key: (value, expiry), **self._store}: the key goes first; the unpacked
\* old dictionary then overwrites the item of a key it already holds
StorePrepend(s, k, v, ttl, t) ==
    IF HasKey(s, k)
    THEN <<s[IndexOf(s, k)]>> \o DictDel(s, k)
    ELSE <<Entry(k, v, PrependExpiry(ttl, t))>> \o s

\* (mutant) an entry is swept only once its expiry lies in the past
ExpiredStrict(e, t) == e # NoExpiry /\ e # 0 /\ e < t

\* cleanup(): `expiry and expiry <= now`
Expired(e, t) == e # NoExpiry /\ e # 0 /\ e <= t

StoreCleanup(s, t) == SelectSeq(s, LAMBDA x : ~Expired(x.expiry, t))

\* (mutant) keys() lists the dictionary without sweeping it first
KeysNoSweep(s, t) == KeyList(s)

\* keys(): cleanup() and then list(self._store.keys())
StoreKeys(s, t) == KeyList(StoreCleanup(s, t))


\* ----------------------------------------------- store-level operations
\* One action per public method of ExpiringStore, called by any thread.
\* flag: get/contains removed an expired entry; set replaced an entry that
\* had another expiry; prepend found the key already in the dictionary
NoCall == [op |-> "none", key |-> "", value |-> PyNone, ttl |-> NoTtl,
           ret |-> PyNone, raised |-> FALSE, keys |-> <<>>, flag |-> FALSE,
           cache |-> "", pc |-> "idle", n |-> 0]

\* no cache has a stats block
NoBlocks == [c \in {} |-> 0]

NoWrites == [k \in Keys |-> {}]

\* the connection worker before it has received anything.  pc: position of
\* the worker; cmd: the last token list received; val: the value read by the
\* EXPIRE handler; keys, acc: the key list and the lines of INSPECT; reply,
\* ret: the last bytes sent and the last return value of handle_command;
\* sent, validated, ran, raised: what the last handle_command call did;
\* pre, t0: the item of the command's key and the time at its receipt
IdleConn == [pc |-> "idle", cmd |-> <<>>, val |-> PyNone, keys |-> <<>>,
             acc |-> "", reply |-> "", ret |-> TRUE, sent |-> 0,
             validated |-> FALSE, ran |-> FALSE, raised |-> FALSE,
             pre |-> {}, t0 |-> 0]

\* an event bus with no observer registered and no delivery in progress
NoBus == [event_handlers |-> {}, global_handlers |-> {}, pc |-> "idle",
          cache |-> "", event |-> "", seen |-> {}, size |-> 0,
          called |-> <<>>, outcome |-> "none",
          due |-> [scoped |-> {}, global |-> {}]]

\* an empty persistence directory; saved is the payload the last successful
\* persist of each cache wrote
NoDisk == [files |-> [f \in {} |-> 0], saved |-> [c \in {} |-> 0]]

\* a cache manager with persistence_dir = None: no auto-persist thread
NoManager == [dir |-> FALSE, compress |-> TRUE, persist |-> "none",
              stop_persist |-> FALSE, todo |-> <<>>, pc |-> "idle",
              stodo |-> <<>>, gen |-> 0, stopped |-> FALSE,
              snap |-> [pc |-> "idle", cache |-> "<None>", at |-> <<>>,
                        data |-> [data |-> <<>>], before |-> {},
                        ret |-> "none", n |-> 0]]

\* the store's reaper outside the model's view: sweeps are the free
\* action Cleanup and no caller is inside a call
NoThreads == [stop_event |-> FALSE, reaper |-> "free", sweep_now |-> 0,
              stopper |-> "idle", stops |-> 0, nsets |-> 0,
              setters |-> [c \in {} |-> 0], written |-> {},
              final |-> [k \in {} |-> 0], overlap |-> FALSE,
              reaped |-> {},
              log |-> [lock |-> "free", logs |-> <<>>, file |-> 0,
                       pc |-> [t \in {"t1", "t2"} |-> "idle"],
                       msg |-> [t \in {"t1", "t2"} |-> ""],
                       nested |-> [t \in {"t1", "t2"} |-> FALSE]]]

Set(k, v, ttl) ==
    /\ store' = StoreSet(store, k, v, ttl, default_ttl, now)
    /\ wrote' = [wrote EXCEPT ![k] =
                    {<<v, IF ttl # NoTtl THEN now + ttl
                          ELSE IF default_ttl # NoTtl THEN now + default_ttl
                          ELSE NoExpiry>>}]
    /\ last' = [NoCall EXCEPT !.op = "set", !.key = k, !.value = v,
                              !.ttl = ttl,
                              !.flag = \E p \in ItemOf(store, k) :
                                           p[2] # SetExpiry(ttl, default_ttl, now)]
    /\ UNCHANGED <<now, default_ttl, conn, replies, nrecv, cacheVars, sysVars>>

Get(k, d) ==
    /\ store' = GetStore(store, k, now)
    /\ last' = [NoCall EXCEPT !.op = "get", !.key = k, !.value = d,
                              !.ret = GetRet(store, k, d, now),
                              !.flag = (GetStore(store, k, now) # store)]
    /\ UNCHANGED <<now, default_ttl, wrote, conn, replies, nrecv, cacheVars,
                   sysVars>>

ContainsOp(k) ==
    /\ store' = GetStore(store, k, now)
    /\ last' = [NoCall EXCEPT !.op = "contains", !.key = k,
                              !.ret = IF Contains(store, k, now) THEN "True" ELSE "False",
                              !.flag = (GetStore(store, k, now) # store)]
    /\ UNCHANGED <<now, default_ttl, wrote, conn, replies, nrecv, cacheVars,
                   sysVars>>

Prepend(k, v, ttl) ==
    /\ store' = StorePrepend(store, k, v, ttl, now)
    /\ wrote' = [wrote EXCEPT ![k] = {}]
    /\ last' = [NoCall EXCEPT !.op = "prepend", !.key = k, !.value = v,
                              !.ttl = ttl, !.flag = HasKey(store, k)]
    /\ UNCHANGED <<now, default_ttl, conn, replies, nrecv, cacheVars, sysVars>>

KeysOp ==
    /\ store' = StoreCleanup(store, now)
    /\ last' = [NoCall EXCEPT !.op = "keys", !.keys = StoreKeys(store, now),
                              !.flag = (StoreCleanup(store, now) # store)]
    /\ UNCHANGED <<now, default_ttl, wrote, conn, replies, nrecv, cacheVars,
                   sysVars>>

\* __delitem__: KeyError when the key is not in the dictionary
DelItem(k) ==
    /\ store' = DictDel(store, k)
    /\ wrote' = [wrote EXCEPT ![k] = {}]
    /\ last' = [NoCall EXCEPT !.op = "del", !.key = k, !.raised = ~HasKey(store, k)]
    /\ UNCHANGED <<now, default_ttl, conn, replies, nrecv, cacheVars, sysVars>>

Clear ==
    /\ store' = <<>>
    /\ wrote' = NoWrites
    /\ last' = [NoCall EXCEPT !.op = "clear"]
    /\ UNCHANGED <<now, default_ttl, conn, replies, nrecv, cacheVars, sysVars>>

\* the reaper thread (_auto_cleanup) or a manual cleanup()
Cleanup ==
    /\ store' = StoreCleanup(store, now)
    /\ store' # store
    /\ UNCHANGED <<now, default_ttl, last, wrote, conn, replies, nrecv, cacheVars,
                   sysVars>>

Tick ==
    /\ now < MaxTime
    /\ now' = now + 1
    /\ UNCHANGED <<store, default_ttl, last, wrote, conn, replies, nrecv, cacheVars,
                   sysVars>>

StoreInit ==
    /\ now = 1
    /\ store = <<>>
    /\ default_ttl \in {NoTtl, MaxTtl}
    /\ last = NoCall
    /\ wrote = NoWrites
    /\ conn = IdleConn
    /\ replies = <<>>
    /\ nrecv = 0
    /\ stats = NoBlocks
    /\ events = <<>>
    /\ made = NoBlocks
    /\ calls = 0
    /\ bus = NoBus
    /\ disk = NoDisk
    /\ mgr = NoManager
    /\ thr = NoThreads

StoreNext ==
    \/ \E k \in Keys, v \in Vals, ttl \in Ttls \cup {NoTtl} : Set(k, v, ttl)
    \/ \E k \in Keys : Get(k, NullDefault)
    \/ \E k \in Keys : ContainsOp(k)
    \/ \E k \in Keys, v \in Vals, ttl \in Ttls \cup {NoTtl} : Prepend(k, v, ttl)
    \/ KeysOp
    \/ \E k \in Keys : DelItem(k)
    \/ Clear
    \/ Cleanup
    \/ Tick

SpecStore == StoreInit /\ [][StoreNext]_vars


\* ------------------------------------------------------ CommandValidator
\* (mutant) the verb is compared case-sensitively
UpperNone(tok) == tok

\* str.upper() on the first token
Upper(tok) ==
    CASE tok = "ping" -> "PING"
      [] tok = "exit" -> "EXIT"
      [] tok = "set" -> "SET"
      [] OTHER -> tok

\* the verbs of COMMAND_SPECS
Registry == {"PING", "EXIT", "EXPIRE", "SET", "GET", "DEL", "LPOP", "ECHO",
             "LPUSH", "RPUSH", "INSPECT"}

MinArgs(c) ==
    CASE c \in {"PING", "EXIT", "INSPECT"} -> 1
      [] c \in {"GET", "DEL", "LPOP", "ECHO"} -> 2
      [] OTHER -> 3

\* (mutant) no verb has a maximum
MaxArgsUnbounded(c) == 0

\* 0 stands for max_args None (both are falsy in `spec['max_args'] and ...`)
MaxArgs(c) == IF c = "ECHO" THEN 0 ELSE MinArgs(c)

Usage(c) ==
    CASE c = "PING" -> "PING"
      [] c = "EXIT" -> "EXIT"
      [] c = "EXPIRE" -> "EXPIRE key seconds"
      [] c = "SET" -> "SET key value"
      [] c = "GET" -> "GET key"
      [] c = "DEL" -> "DEL key"
      [] c = "LPOP" -> "LPOP key"
      [] c = "ECHO" -> "ECHO message ..."
      [] c = "LPUSH" -> "LPUSH key value"
      [] c = "RPUSH" -> "RPUSH key value"
      [] OTHER -> "INSPECT"

\* spec['types'], <<>> when the spec has none
Types(c) == IF c = "EXPIRE" THEN <<"str", "str", "int">> ELSE <<>>

\* tokens that int() converts, and their values
IntTokens == {"0", "1"}

ParseInt(tok) == IF tok = "0" THEN 0 ELSE 1

\* str(i) of an argument position
PosStr(i) == CASE i = 1 -> "1" [] i = 2 -> "2" [] OTHER -> "3"

Min2(a, b) == IF a < b THEN a ELSE b

\* positions i (counted from 1 over the arguments) where int(arg) raises
BadPositions(parts, types) ==
    {i \in 1..Min2(Len(parts) - 1, Len(types) - 1) :
        types[i + 1] = "int" /\ parts[i + 1] \notin IntTokens}

FirstOf(S) == CHOOSE i \in S : \A j \in S : i <= j

\* CommandValidator.validate
validate(parts) ==
    IF parts = <<>> THEN [ok |-> FALSE, msg |-> "Empty command"]
    ELSE LET command == Upper(parts[1]) IN
         IF command \notin Registry
         THEN [ok |-> FALSE, msg |-> "Unknown command: " \o command]
         ELSE IF Len(parts) < MinArgs(command)
         THEN [ok |-> FALSE,
               msg |-> "Too few arguments. Usage: " \o Usage(command)]
         ELSE IF MaxArgs(command) # 0 /\ Len(parts) > MaxArgs(command)
         THEN [ok |-> FALSE,
               msg |-> "Too many arguments. Usage: " \o Usage(command)]
         ELSE IF BadPositions(parts, Types(command)) # {}
         THEN [ok |-> FALSE,
               msg |-> "Argument "
                       \o PosStr(FirstOf(BadPositions(parts, Types(command))))
                       \o " must be a number"]
         ELSE [ok |-> TRUE, msg |-> ""]

\* ValidationHandler.validate_command: the validator over the registry
validate_command(parts) == validate(parts)

\* ------------------------------------------------------- CommandHandler
\* the keys of self._handlers
Handlers == {"PING", "ECHO", "SET", "GET", "DEL", "LPOP", "EXPIRE", "LPUSH",
             "RPUSH", "INSPECT", "CREATECACHE", "DELETECACHE", "LISTCACHES",
             "CREATESTORE", "DELETESTORE", "LISTSTORES"}

\* ' '.join(args)
RECURSIVE JoinSp(_)
JoinSp(args) ==
    IF Len(args) = 0 THEN ""
    ELSE IF Len(args) = 1 THEN args[1]
    ELSE args[1] \o " " \o JoinSp(Tail(args))

\* (mutant) the tokens are passed on as they came
PreprocessNone(parts) == parts

\* _preprocess_set_command
PreprocessSet(parts) ==
    IF Len(parts) < 3 THEN parts
    ELSE IF Upper(parts[1]) = "SET" /\ Len(parts) > 3
    THEN <<parts[1], parts[2], JoinSp(SubSeq(parts, 3, Len(parts)))>>
    ELSE parts

\* str(value)
Str(v) == IF v = PyNone THEN "None" ELSE v

\* (mutant) the response is sent without the line terminator
ResponseBare(r) == r

\* EventHandler.handle_response
Response(r) == r \o "\n"

\* (mutant) an error is sent like a normal response
ErrorReplyPlain(m) == m \o "\n"

\* EventHandler.handle_error
ErrorReply(m) == "ERROR: " \o m \o "\n"

\* (mutant) the message of a KeyError taken to be the bare key
KeyErrorStrBare(k) == k

\* str(KeyError(key))
KeyErrorStr(k) == "'" \o k \o "'"

\* the command as handle_command sees it after preprocessing
Parts(tokens) == PreprocessSet(tokens)

Command(tokens) == Upper(Parts(tokens)[1])

\* handle_command gets as far as calling the handler of verb
Runs(tokens, verbs) ==
    /\ tokens # <<>>
    /\ Command(tokens) \in verbs
    /\ Command(tokens) # "EXIT"
    /\ validate_command(Parts(tokens)).ok
    /\ Command(tokens) \in Handlers

\* the worker takes the next command off the connection
Begin ==
    /\ conn.pc = "idle"
    /\ nrecv < MaxCmds
    /\ nrecv' = nrecv + 1
    /\ UNCHANGED <<now, default_ttl, last, wrote, cacheVars, sysVars>>

\* handle_command returns True after one send_response call
Sends(idx, tokens, text, validated, ran, raised) ==
    /\ conn' = [IdleConn EXCEPT !.cmd = tokens, !.reply = text, !.sent = 1,
                                !.validated = validated, !.ran = ran,
                                !.raised = raised]
    /\ replies' = Append(replies, idx)

\* a handler goes on to its next store call
Goes(pc, tokens, val, keys, acc, pre, t0) ==
    /\ conn' = [IdleConn EXCEPT !.pc = pc, !.cmd = tokens, !.val = val,
                                !.keys = keys, !.acc = acc, !.pre = pre,
                                !.t0 = t0, !.validated = TRUE, !.ran = TRUE]
    /\ UNCHANGED replies

\* handle_command: `if not command_parts: return True`
HandleEmpty(tokens) ==
    /\ Begin
    /\ tokens = <<>>
    /\ conn' = IdleConn
    /\ UNCHANGED <<store, replies>>

\* handle_command: EXIT goes to EventHandler.handle_exit
HandleExit(tokens) ==
    /\ Begin
    /\ tokens # <<>>
    /\ Command(tokens) = "EXIT"
    /\ conn' = [IdleConn EXCEPT !.pc = "closed", !.cmd = tokens,
                                !.reply = "Goodbye!\n",
                                !.ret = FALSE, !.sent = 1]
    /\ replies' = Append(replies, nrecv + 1)
    /\ UNCHANGED store

\* handle_command: validation fails, or the verb has no handler
HandleRejected(tokens) ==
    /\ Begin
    /\ tokens # <<>>
    /\ Command(tokens) # "EXIT"
    /\ LET v == validate_command(Parts(tokens)) IN
         \/ /\ ~v.ok
            /\ Sends(nrecv + 1, tokens, ErrorReply(v.msg), TRUE, FALSE, FALSE)
         \/ /\ v.ok
            /\ Command(tokens) \notin Handlers
            /\ Sends(nrecv + 1, tokens,
                     ErrorReply("Unknown command: " \o Command(tokens)),
                     TRUE, FALSE, TRUE)
    /\ UNCHANGED store

HandlePing(tokens) ==
    /\ Begin
    /\ Runs(tokens, {"PING"})
    /\ Sends(nrecv + 1, tokens, Response("PONG"), TRUE, TRUE, FALSE)
    /\ UNCHANGED store

HandleEcho(tokens) ==
    /\ Begin
    /\ Runs(tokens, {"ECHO"})
    /\ Sends(nrecv + 1, tokens, Response(JoinSp(Tail(Parts(tokens)))),
             TRUE, TRUE, FALSE)
    /\ UNCHANGED store

\* _handle_set and _handle_rpush: self.store.set(key, value)
HandleSet(tokens) ==
    /\ Begin
    /\ Runs(tokens, {"SET", "RPUSH"})
    /\ store' = StoreSet(store, Parts(tokens)[2], Parts(tokens)[3], NoTtl,
                         default_ttl, now)
    /\ Sends(nrecv + 1, tokens, Response("OK"), TRUE, TRUE, FALSE)

HandleGet(tokens) ==
    /\ Begin
    /\ Runs(tokens, {"GET"})
    /\ store' = GetStore(store, Parts(tokens)[2], now)
    /\ Sends(nrecv + 1, tokens,
             Response(Str(GetRet(store, Parts(tokens)[2], NullDefault, now))),
             TRUE, TRUE, FALSE)

HandleLpush(tokens) ==
    /\ Begin
    /\ Runs(tokens, {"LPUSH"})
    /\ store' = StorePrepend(store, Parts(tokens)[2], Parts(tokens)[3], NoTtl, now)
    /\ Sends(nrecv + 1, tokens, Response("OK"), TRUE, TRUE, FALSE)

\* _handle_del, first store call: `key in self.store`
HandleDel(tokens) ==
    /\ Begin
    /\ Runs(tokens, {"DEL", "LPOP"})
    /\ store' = GetStore(store, Parts(tokens)[2], now)
    /\ IF Contains(store, Parts(tokens)[2], now)
       THEN Goes("del", tokens, PyNone, <<>>, "",
                 ItemOf(store, Parts(tokens)[2]), now)
       ELSE Sends(nrecv + 1, tokens, Response("NULL"), TRUE, TRUE, FALSE)

\* _handle_del, second store call: `del self.store[key]`, KeyError caught
\* by handle_command
DelStep ==
    /\ conn.pc = "del"
    /\ store' = DictDel(store, Parts(conn.cmd)[2])
    /\ IF HasKey(store, Parts(conn.cmd)[2])
       THEN Sends(nrecv, conn.cmd, Response("OK"), TRUE, TRUE, FALSE)
       ELSE Sends(nrecv, conn.cmd, ErrorReply(KeyErrorStr(Parts(conn.cmd)[2])),
                  TRUE, TRUE, TRUE)
    /\ UNCHANGED <<now, default_ttl, last, wrote, nrecv, cacheVars, sysVars>>


\* _handle_expire, first store call: `key in self.store`
HandleExpire(tokens) ==
    /\ Begin
    /\ Runs(tokens, {"EXPIRE"})
    /\ store' = GetStore(store, Parts(tokens)[2], now)
    /\ IF Contains(store, Parts(tokens)[2], now)
       THEN Goes("expire_get", tokens, PyNone, <<>>, "",
                 ItemOf(store, Parts(tokens)[2]), now)
       ELSE Sends(nrecv + 1, tokens, Response("NULL"), TRUE, TRUE, FALSE)

\* _handle_expire, second store call: value = self.store.get(key)
ExpireGet ==
    /\ conn.pc = "expire_get"
    /\ store' = GetStore(store, Parts(conn.cmd)[2], now)
    /\ Goes("expire_set", conn.cmd,
            GetRet(store, Parts(conn.cmd)[2], PyNone, now),
            <<>>, "", conn.pre, conn.t0)
    /\ UNCHANGED <<now, default_ttl, last, wrote, nrecv, cacheVars, sysVars>>

\* _handle_expire, third store call: self.store.set(key, value, ttl=ttl)
ExpireSet ==
    /\ conn.pc = "expire_set"
    /\ store' = StoreSet(store, Parts(conn.cmd)[2], conn.val,
                         ParseInt(Parts(conn.cmd)[3]), default_ttl, now)
    /\ Sends(nrecv, conn.cmd, Response("OK"), TRUE, TRUE, FALSE)
    /\ UNCHANGED <<now, default_ttl, last, wrote, nrecv, cacheVars, sysVars>>

\* _handle_inspect, first store call: self.store.keys()
HandleInspect(tokens) ==
    /\ Begin
    /\ Runs(tokens, {"INSPECT"})
    /\ store' = StoreCleanup(store, now)
    /\ IF StoreKeys(store, now) = <<>>
       THEN Sends(nrecv + 1, tokens, Response("END"), TRUE, TRUE, FALSE)
       ELSE Goes("inspect", tokens, PyNone, StoreKeys(store, now), "",
                 {}, now)

\* _handle_inspect, one self.store.get(k) of the loop; after the last one
\* the lines and END are joined and sent
InspectGet ==
    /\ conn.pc = "inspect"
    /\ store' = GetStore(store, conn.keys[1], now)
    /\ LET line == conn.keys[1] \o ": "
                   \o Str(GetRet(store, conn.keys[1], PyNone, now)) \o "\n"
       IN  IF Len(conn.keys) = 1
           THEN Sends(nrecv, conn.cmd, Response(conn.acc \o line \o "END"),
                      TRUE, TRUE, FALSE)
           ELSE Goes("inspect", conn.cmd, PyNone, Tail(conn.keys),
                     conn.acc \o line, {}, conn.t0)
    /\ UNCHANGED <<now, default_ttl, last, wrote, nrecv, cacheVars, sysVars>>

\* the token lists a client sends
Cmds ==
    {<<>>, <<"PING">>, <<"ping">>, <<"EXIT">>, <<"exit", "k1">>, <<"BOGUS">>,
     <<"ECHO", "v1", "v2">>, <<"ECHO">>,
     <<"SET", "k1">>, <<"GET">>, <<"GET", "k1", "k2">>, <<"INSPECT">>,
     <<"EXPIRE", "k1", "abc">>, <<"EXPIRE", "k1">>, <<"DEL">>,
     <<"SET", "k1", "v1", "v2">>, <<"LPUSH", "k1", "v1", "v2">>,
     <<"CREATECACHE", "users">>, <<"CACHESET", "users", "u1", "alice">>,
     <<"CACHEGET", "users", "u1">>, <<"CACHEKEYS", "users">>}
    \cup {<<"SET", k, v>> : k \in Keys, v \in Vals}
    \cup {<<"LPUSH", k, v>> : k \in Keys, v \in Vals}
    \cup {<<"RPUSH", "k2", v>> : v \in Vals}
    \cup {<<c, k>> : c \in {"GET", "DEL", "LPOP"}, k \in Keys}
    \cup {<<"EXPIRE", k, s>> : k \in Keys, s \in IntTokens}

CmdInit ==
    /\ now = 1
    /\ store = <<>>
    /\ default_ttl \in {NoTtl, MaxTtl}
    /\ last = NoCall
    /\ wrote = NoWrites
    /\ conn = IdleConn
    /\ replies = <<>>
    /\ nrecv = 0
    /\ stats = NoBlocks
    /\ events = <<>>
    /\ made = NoBlocks
    /\ calls = 0
    /\ bus = NoBus
    /\ disk = NoDisk
    /\ mgr = NoManager
    /\ thr = NoThreads

\* handle_command on one token list, up to the return or to the point where
\* the handler has made its first store call
HandleCommand(tokens) ==
    \/ HandleEmpty(tokens)
    \/ HandleExit(tokens)
    \/ HandleRejected(tokens)
    \/ HandlePing(tokens)
    \/ HandleEcho(tokens)
    \/ HandleSet(tokens)
    \/ HandleGet(tokens)
    \/ HandleLpush(tokens)
    \/ HandleDel(tokens)
    \/ HandleExpire(tokens)
    \/ HandleInspect(tokens)

CmdNext ==
    \/ \E tokens \in Cmds : HandleCommand(tokens)
    \/ DelStep
    \/ ExpireGet
    \/ ExpireSet
    \/ InspectGet
    \/ Cleanup
    \/ Tick

SpecCmd == CmdInit /\ [][CmdNext]_vars

\* ------------------------------------------ ExpiringDict and the TCP worker
\* server.py keeps its store in an ExpiringDict (expiration_manager.py),
\* which has set, get, __contains__ and cleanup and nothing else: it has
\* no __delitem__, no prepend, no keys and no clear.
EdSet(s, k, v, ttl, dflt, t) ==
    LET eff == IF ttl # NoTtl THEN ttl ELSE dflt
    IN  DictAssign(s, k, v, IF eff # NoTtl THEN t + eff ELSE NoExpiry)

EdGetRet(s, k, d, t) ==
    IF ~HasKey(s, k) THEN d
    ELSE IF s[IndexOf(s, k)].expiry = NoExpiry \/ s[IndexOf(s, k)].expiry > t
    THEN s[IndexOf(s, k)].value
    ELSE d

EdGetStore(s, k, t) ==
    IF /\ HasKey(s, k)
       /\ ~(s[IndexOf(s, k)].expiry = NoExpiry \/ s[IndexOf(s, k)].expiry > t)
    THEN DictDel(s, k)
    ELSE s

EdContains(s, k, t) == EdGetRet(s, k, PyNone, t) # PyNone

EdCleanup(s, t) ==
    SelectSeq(s, LAMBDA x : ~(x.expiry # NoExpiry /\ x.expiry # 0
                              /\ x.expiry <= t))

\* server.py validate_command
server_validate_command(parts) ==
    IF parts = <<>> THEN FALSE
    ELSE LET command == Upper(parts[1]) IN
         \/ command \in {"PING", "EXIT"}
         \/ command = "EXPIRE" /\ Len(parts) >= 3
         \/ command = "SET" /\ Len(parts) >= 3
         \/ command \in {"GET", "DEL"} /\ Len(parts) >= 2
         \/ command = "ECHO" /\ Len(parts) >= 2

\* the worker reaches the `match command` statement with this verb
TcpRuns(tokens, verb) ==
    /\ tokens # <<>>
    /\ Upper(tokens[1]) = verb
    /\ server_validate_command(tokens)

\* the worker thread ends on an exception no one catches: `with
\* client_socket` closes the socket and nothing is sent
Dies(tokens, pre) ==
    /\ conn' = [IdleConn EXCEPT !.pc = "died", !.cmd = tokens, !.pre = pre,
                                !.t0 = now, !.ret = FALSE,
                                !.validated = TRUE, !.ran = TRUE,
                                !.raised = TRUE]
    /\ UNCHANGED replies

\* the worker goes back to recv without having sent anything
Silent(tokens, validated, pre) ==
    /\ conn' = [IdleConn EXCEPT !.cmd = tokens, !.validated = validated,
                                !.ran = validated, !.pre = pre, !.t0 = now]
    /\ UNCHANGED replies

\* recv returns b'': the client closed the connection
TcpEof ==
    /\ conn.pc = "idle"
    /\ conn' = [IdleConn EXCEPT !.pc = "eof", !.ret = FALSE]
    /\ UNCHANGED <<now, store, default_ttl, last, wrote, replies, nrecv, cacheVars,
                   sysVars>>

\* `if not command_parts: continue`
TcpBlank(tokens) ==
    /\ Begin
    /\ tokens = <<>>
    /\ Silent(tokens, FALSE, {})
    /\ UNCHANGED store

TcpExit(tokens) ==
    /\ Begin
    /\ tokens # <<>>
    /\ Upper(tokens[1]) = "EXIT"
    /\ conn' = [IdleConn EXCEPT !.pc = "closed", !.cmd = tokens,
                                !.reply = "Goodbye!\n",
                                !.ret = FALSE, !.sent = 1]
    /\ replies' = Append(replies, nrecv + 1)
    /\ UNCHANGED store

TcpInvalid(tokens) ==
    /\ Begin
    /\ tokens # <<>>
    /\ Upper(tokens[1]) # "EXIT"
    /\ ~server_validate_command(tokens)
    /\ Sends(nrecv + 1, tokens,
             IF Upper(tokens[1]) \notin {"PING", "EXIT", "SET", "GET", "DEL",
                                         "EXPIRE", "ECHO"}
             THEN "ERROR: Unknown command\n"
             ELSE "ERROR: Invalid command or insufficient arguments\n",
             TRUE, FALSE, FALSE)
    /\ UNCHANGED store

TcpPing(tokens) ==
    /\ Begin
    /\ TcpRuns(tokens, "PING")
    /\ Sends(nrecv + 1, tokens, "PONG\n", TRUE, TRUE, FALSE)
    /\ UNCHANGED store

TcpEcho(tokens) ==
    /\ Begin
    /\ TcpRuns(tokens, "ECHO")
    /\ Sends(nrecv + 1, tokens, JoinSp(Tail(tokens)) \o "\n", TRUE, TRUE, FALSE)
    /\ UNCHANGED store

TcpSet(tokens) ==
    /\ Begin
    /\ TcpRuns(tokens, "SET")
    /\ store' = EdSet(store, tokens[2], tokens[3], NoTtl, default_ttl, now)
    /\ Sends(nrecv + 1, tokens, "OK\n", TRUE, TRUE, FALSE)

TcpGet(tokens) ==
    /\ Begin
    /\ TcpRuns(tokens, "GET")
    /\ store' = EdGetStore(store, tokens[2], now)
    /\ Sends(nrecv + 1, tokens,
             Str(EdGetRet(store, tokens[2], NullDefault, now)) \o "\n",
             TRUE, TRUE, FALSE)

\* case 'DEL': `key in store`, then `del store[key]`, which raises
\* TypeError on an ExpiringDict whatever the store holds by then
TcpDel(tokens) ==
    /\ Begin
    /\ TcpRuns(tokens, "DEL")
    /\ store' = EdGetStore(store, tokens[2], now)
    /\ IF EdContains(store, tokens[2], now)
       THEN Dies(tokens, ItemOf(store, tokens[2]))
       ELSE Sends(nrecv + 1, tokens, "NULL\n", TRUE, TRUE, FALSE)

\* case 'EXPIRE': int(command_parts[2]) raises ValueError on a token that
\* is not a number; then `key in store`, with no else branch
TcpExpire(tokens) ==
    /\ Begin
    /\ TcpRuns(tokens, "EXPIRE")
    /\ IF tokens[3] \notin IntTokens
       THEN Dies(tokens, {}) /\ UNCHANGED store
       ELSE /\ store' = EdGetStore(store, tokens[2], now)
            /\ IF EdContains(store, tokens[2], now)
               THEN Goes("tcp_expire_get", tokens, PyNone, <<>>, "",
                         ItemOf(store, tokens[2]), now)
               ELSE Silent(tokens, TRUE, {})

\* case 'EXPIRE': value = store.get(key)
TcpExpireGet ==
    /\ conn.pc = "tcp_expire_get"
    /\ store' = EdGetStore(store, conn.cmd[2], now)
    /\ Goes("tcp_expire_set", conn.cmd,
            EdGetRet(store, conn.cmd[2], PyNone, now),
            <<>>, "", conn.pre, conn.t0)
    /\ UNCHANGED <<now, default_ttl, last, wrote, nrecv, cacheVars, sysVars>>

\* case 'EXPIRE': store.set(key, value, ttl=ttl) and the reply
TcpExpireSet ==
    /\ conn.pc = "tcp_expire_set"
    /\ store' = EdSet(store, conn.cmd[2], conn.val, ParseInt(conn.cmd[3]),
                      default_ttl, now)
    /\ Sends(nrecv, conn.cmd, "OK\n", TRUE, TRUE, FALSE)
    /\ UNCHANGED <<now, default_ttl, last, wrote, nrecv, cacheVars, sysVars>>

\* ExpiringDict._auto_cleanup
TcpReaper ==
    /\ store' = EdCleanup(store, now)
    /\ store' # store
    /\ UNCHANGED <<now, default_ttl, last, wrote, conn, replies, nrecv, cacheVars,
                   sysVars>>

\* what a client writes to the socket, split on white space.  RPUSH and
\* BOGUS never get past validate_command, so `case 'RPUSH'` and `case _`
\* are dead code.
TcpCmds ==
    {<<>>, <<"PING">>, <<"exit">>, <<"BOGUS">>, <<"GET">>,
     <<"ECHO", "v1", "v2">>, <<"RPUSH", "k1", "v1">>,
     <<"EXPIRE", "k1", "abc">>}
    \cup {<<"SET", k, "v1">> : k \in Keys}
    \cup {<<c, k>> : c \in {"GET", "DEL"}, k \in Keys}
    \cup {<<"EXPIRE", "k1", s>> : s \in IntTokens}

\* store = ExpiringDict(): no default ttl
TcpInit ==
    /\ now = 1
    /\ store = <<>>
    /\ default_ttl = NoTtl
    /\ last = NoCall
    /\ wrote = NoWrites
    /\ conn = IdleConn
    /\ replies = <<>>
    /\ nrecv = 0
    /\ stats = NoBlocks
    /\ events = <<>>
    /\ made = NoBlocks
    /\ calls = 0
    /\ bus = NoBus
    /\ disk = NoDisk
    /\ mgr = NoManager
    /\ thr = NoThreads

\* one pass of the loop of handle_client_connection
TcpRequest(tokens) ==
    \/ TcpBlank(tokens)
    \/ TcpExit(tokens)
    \/ TcpInvalid(tokens)
    \/ TcpPing(tokens)
    \/ TcpEcho(tokens)
    \/ TcpSet(tokens)
    \/ TcpGet(tokens)
    \/ TcpDel(tokens)
    \/ TcpExpire(tokens)

TcpNext ==
    \/ \E tokens \in TcpCmds : TcpRequest(tokens)
    \/ TcpEof
    \/ TcpExpireGet
    \/ TcpExpireSet
    \/ TcpReaper
    \/ Tick

SpecTcp == TcpInit /\ [][TcpNext]_vars

\* --------------------------------------------------------- CacheHandler
\* The cache manager of cache_handler.py with persistence_dir = None.  Its
\* outer store is an ExpiringStore (the variable store) whose keys are
\* cache names and whose values are plain dictionaries; a dictionary is
\* held by reference, so writing into it changes the stored entry and
\* leaves its expiry alone.  One caller thread makes the calls; the reaper
\* of the outer store and the clock run beside it.  Methods that hold
\* self._lock for their whole body and make one get() on the outer store
\* are one step; delete_cache makes two store calls without any lock and
\* is two steps.  The timestamps of a stats block (last_access,
\* last_write, created_at) are left out: no method modelled here reads them.
Caches == {"c1", "c2"}

\* CacheStats()
ZeroStats == [hits |-> 0, misses |-> 0, items |-> 0]

\* the plain dictionary of one cache, in insertion order
Item(k, v) == [key |-> k, value |-> v]

PlainGet(dct, k) == dct[IndexOf(dct, k)].value

PlainAssign(dct, k, v) ==
    IF HasKey(dct, k)
    THEN [dct EXCEPT ![IndexOf(dct, k)] = Item(k, v)]
    ELSE Append(dct, Item(k, v))

\* self._store.get(cache_name) is not None
CacheLive(s, c, t) == HasKey(s, c) /\ Live(s[IndexOf(s, c)].expiry, t)

\* the dictionary self._store.get(cache_name) returns
CacheOf(s, c) == s[IndexOf(s, c)].value

\* a write through the reference to the dictionary of cache c
WithCache(s, c, dct) == [s EXCEPT ![IndexOf(s, c)].value = dct]

\* self._stats[cache_name] = block
Put(f, c, x) == [y \in DOMAIN f \cup {c} |-> IF y = c THEN x ELSE f[y]]

\* the DELETE events clear_cache triggers, one per item, in order
DeleteEvents(c, dct) ==
    [i \in 1..Len(dct) |-> [type |-> "delete", cache |-> c, key |-> dct[i].key]]

\* the ghost record of the keys of cache c is dropped
Forget(w, c) == [x \in DOMAIN w |-> IF x[1] = c THEN {} ELSE w[x]]

NoCacheWrites == [x \in Caches \X Keys |-> {}]

\* the values and ttls the caller writes
CacheVals == {"v1"}

CacheTtls == {NoTtl, MaxTtl}

\* the caller thread starts a call
Call ==
    /\ last.pc = "idle"
    /\ calls < MaxCalls
    /\ calls' = calls + 1

\* the deadline of an entry written now with this ttl into cache c, were
\* ttls kept per entry: the ttl given, else the ttl the cache was created
\* with, else the default_ttl of the manager, counted from the write
Promised(c, ttl) ==
    LET own == IF CacheLive(store, c, now) /\ c \in DOMAIN made
               THEN made[c].ttl ELSE NoTtl
        eff == IF ttl # NoTtl THEN ttl
               ELSE IF own # NoTtl THEN own
               ELSE default_ttl
    IN  IF eff # NoTtl THEN now + eff ELSE NoExpiry

\* create_cache
CreateCache(c) ==
    /\ Call
    /\ IF CacheLive(store, c, now)
       THEN /\ last' = [NoCall EXCEPT !.op = "create_cache", !.cache = c,
                                      !.ret = "False"]
            /\ UNCHANGED <<store, stats, made>>
       ELSE /\ store' = StoreSet(GetStore(store, c, now), c, <<>>, NoTtl,
                                 default_ttl, now)
            /\ stats' = Put(stats, c, ZeroStats)
            /\ made' = Put(made, c, [ttl |-> NoTtl, reads |-> 0])
            /\ last' = [NoCall EXCEPT !.op = "create_cache", !.cache = c,
                                      !.ret = "True"]
    /\ UNCHANGED <<now, default_ttl, wrote, conn, replies, nrecv, events, sysVars>>

\* set: the ttl is used only when the call creates the cache, as the ttl of
\* the whole cache; cache[key] = value carries no expiry of its own
CacheSet(c, k, v, ttl) ==
    /\ Call
    /\ LET live == CacheLive(store, c, now)
           s1 == IF live THEN store
                 ELSE StoreSet(GetStore(store, c, now), c, <<>>, ttl,
                               default_ttl, now)
           dct == PlainAssign(CacheOf(s1, c), k, v)
           st1 == IF live THEN stats ELSE Put(stats, c, ZeroStats)
       IN  /\ store' = WithCache(s1, c, dct)
           /\ stats' = [st1 EXCEPT ![c].items = Len(dct)]
           /\ made' = IF live THEN made
                      ELSE Put(made, c, [ttl |-> ttl, reads |-> 0])
           /\ last' = [NoCall EXCEPT !.op = "set", !.cache = c, !.key = k,
                                     !.value = v, !.ttl = ttl,
                                     !.ret = "True", !.flag = live]
    /\ wrote' = [wrote EXCEPT ![<<c, k>>] = {<<v, Promised(c, ttl)>>}]
    /\ UNCHANGED <<now, default_ttl, conn, replies, nrecv, events, sysVars>>

\* (mutant) a read that finds nothing is not counted
CountedHitsOnly(block, hit) ==
    IF hit THEN [block EXCEPT !.hits = @ + 1] ELSE block

\* get: stats.hits += 1 when the key is found, stats.misses += 1 otherwise
Counted(block, hit) ==
    IF hit THEN [block EXCEPT !.hits = @ + 1]
    ELSE [block EXCEPT !.misses = @ + 1]

\* get
CacheGet(c, k) ==
    /\ Call
    /\ LET live == CacheLive(store, c, now)
           hit == live /\ HasKey(CacheOf(store, c), k)
       IN  /\ store' = GetStore(store, c, now)
           /\ stats' = IF live \/ c \in DOMAIN stats
                       THEN [stats EXCEPT ![c] = Counted(@, hit)]
                       ELSE stats
           /\ made' = IF c \in DOMAIN made
                      THEN [made EXCEPT ![c].reads = @ + 1]
                      ELSE made
           /\ last' = [NoCall EXCEPT
                         !.op = "get", !.cache = c, !.key = k,
                         !.ret = IF hit THEN PlainGet(CacheOf(store, c), k)
                                 ELSE PyNone,
                         !.flag = hit]
    /\ UNCHANGED <<now, default_ttl, wrote, conn, replies, nrecv, events, sysVars>>

\* delete: the stats block is not touched
CacheDelete(c, k) ==
    /\ Call
    /\ LET found == CacheLive(store, c, now) /\ HasKey(CacheOf(store, c), k)
       IN  /\ store' = IF found
                       THEN WithCache(store, c, DictDel(CacheOf(store, c), k))
                       ELSE GetStore(store, c, now)
           /\ wrote' = IF found THEN [wrote EXCEPT ![<<c, k>>] = {}] ELSE wrote
           /\ last' = [NoCall EXCEPT !.op = "delete", !.cache = c, !.key = k,
                                     !.ret = IF found THEN "True" ELSE "False"]
    /\ UNCHANGED <<now, default_ttl, conn, replies, nrecv, stats, events, made,
                   sysVars>>

\* list_caches: self._store.keys()
ListCaches ==
    /\ Call
    /\ store' = StoreCleanup(store, now)
    /\ last' = [NoCall EXCEPT !.op = "list_caches",
                              !.keys = StoreKeys(store, now)]
    /\ UNCHANGED <<now, default_ttl, wrote, conn, replies, nrecv, stats, events, made,
                   sysVars>>

\* get_cache_size
GetCacheSize(c) ==
    /\ Call
    /\ store' = GetStore(store, c, now)
    /\ last' = [NoCall EXCEPT !.op = "get_cache_size", !.cache = c,
                              !.n = IF CacheLive(store, c, now)
                                    THEN Len(CacheOf(store, c)) ELSE 0]
    /\ UNCHANGED <<now, default_ttl, wrote, conn, replies, nrecv, stats, events, made,
                   sysVars>>

\* clear_cache: on a live cache the DELETE events are triggered, the
\* dictionary is emptied and items is set to 0; the CacheEventContext of
\* the CLEAR event is then built without its required field `key`, which
\* raises TypeError before the event is triggered and before `return True`
ClearCache(c) ==
    /\ Call
    /\ IF CacheLive(store, c, now)
       THEN /\ events' = events \o DeleteEvents(c, CacheOf(store, c))
            /\ store' = WithCache(store, c, <<>>)
            /\ stats' = [stats EXCEPT ![c].items = 0]
            /\ wrote' = Forget(wrote, c)
            /\ last' = [NoCall EXCEPT !.op = "clear_cache", !.cache = c,
                                      !.ret = "TypeError", !.raised = TRUE,
                                      !.n = Len(CacheOf(store, c))]
       ELSE /\ store' = GetStore(store, c, now)
            /\ last' = [NoCall EXCEPT !.op = "clear_cache", !.cache = c,
                                      !.ret = "False"]
            /\ UNCHANGED <<stats, events, wrote>>
    /\ UNCHANGED <<now, default_ttl, conn, replies, nrecv, made, sysVars>>

\* delete_cache, first store call: `cache_name not in self._store`
DeleteCache(c) ==
    /\ Call
    /\ store' = GetStore(store, c, now)
    /\ last' = IF CacheLive(store, c, now)
               THEN [NoCall EXCEPT !.op = "delete_cache", !.cache = c,
                                   !.pc = "delete_cache",
                                   !.n = Len(CacheOf(store, c))]
               ELSE [NoCall EXCEPT !.op = "delete_cache", !.cache = c,
                                   !.ret = "False"]
    /\ UNCHANGED <<now, default_ttl, wrote, conn, replies, nrecv, stats, events, made,
                   sysVars>>

\* delete_cache, second store call: `del self._store[cache_name]`, which
\* raises KeyError when the reaper has removed the entry in between.  No
\* event is triggered and self._stats keeps the block.
DeleteCacheDel ==
    /\ last.pc = "delete_cache"
    /\ store' = DictDel(store, last.cache)
    /\ wrote' = Forget(wrote, last.cache)
    /\ last' = IF HasKey(store, last.cache)
               THEN [last EXCEPT !.pc = "idle", !.ret = "True"]
               ELSE [last EXCEPT !.pc = "idle", !.ret = "KeyError",
                                 !.raised = TRUE]
    /\ UNCHANGED <<now, default_ttl, conn, replies, nrecv, cacheVars, sysVars>>

\* reset_stats
ResetStats(c) ==
    /\ Call
    /\ IF c \in DOMAIN stats
       THEN /\ stats' = [stats EXCEPT ![c] = ZeroStats]
            /\ made' = [made EXCEPT ![c].reads = 0]
            /\ last' = [NoCall EXCEPT !.op = "reset_stats", !.cache = c,
                                      !.ret = "True"]
       ELSE /\ last' = [NoCall EXCEPT !.op = "reset_stats", !.cache = c,
                                      !.ret = "False"]
            /\ UNCHANGED <<stats, made>>
    /\ UNCHANGED <<now, store, default_ttl, wrote, conn, replies, nrecv,
                   events, sysVars>>

\* CacheHandler(default_ttl) right after construction
CacheInit ==
    /\ now = 1
    /\ store = <<>>
    /\ default_ttl \in {NoTtl, MaxTtl}
    /\ last = NoCall
    /\ wrote = NoCacheWrites
    /\ conn = IdleConn
    /\ replies = <<>>
    /\ nrecv = 0
    /\ stats = NoBlocks
    /\ events = <<>>
    /\ made = NoBlocks
    /\ calls = 0
    /\ bus = NoBus
    /\ disk = NoDisk
    /\ mgr = NoManager
    /\ thr = NoThreads

CacheNext ==
    \/ \E c \in Caches : CreateCache(c)
    \/ \E c \in Caches, k \in Keys, v \in CacheVals, ttl \in CacheTtls :
          CacheSet(c, k, v, ttl)
    \/ \E c \in Caches, k \in Keys : CacheGet(c, k)
    \/ \E c \in Caches, k \in Keys : CacheDelete(c, k)
    \/ ListCaches
    \/ \E c \in Caches : GetCacheSize(c)
    \/ \E c \in Caches : ClearCache(c)
    \/ \E c \in Caches : DeleteCache(c)
    \/ DeleteCacheDel
    \/ \E c \in Caches : ResetStats(c)
    \/ Cleanup
    \/ Tick

SpecCache == CacheInit /\ [][CacheNext]_vars

\* ------------------------------------------- the validator on its own
\* the token lists handed to validate: a first token and up to
\* MaxTokens - 1 further tokens
FirstTokens == Registry \cup {"ping", "BOGUS", "k1"}

ArgTokens == {"k1", "1", "abc"}

RECURSIVE ArgLists(_)
ArgLists(n) ==
    IF n = 0 THEN {<<>>}
    ELSE ArgLists(n - 1)
         \cup {Append(a, t) : a \in {b \in ArgLists(n - 1) : Len(b) = n - 1},
                              t \in ArgTokens}

ValidateInputs ==
    {<<>>} \cup {<<f>> \o a : f \in FirstTokens, a \in ArgLists(MaxTokens - 1)}

\* CommandValidator().validate(parts), the call and its result
Validate(parts) ==
    /\ last' = [NoCall EXCEPT !.op = "validate", !.keys = parts,
                              !.flag = validate(parts).ok,
                              !.ret = validate(parts).msg]
    /\ UNCHANGED <<now, store, default_ttl, wrote, conn, replies, nrecv, cacheVars,
                   sysVars>>

ValidateInit ==
    /\ now = 1
    /\ store = <<>>
    /\ default_ttl = NoTtl
    /\ last = NoCall
    /\ wrote = NoWrites
    /\ conn = IdleConn
    /\ replies = <<>>
    /\ nrecv = 0
    /\ stats = NoBlocks
    /\ events = <<>>
    /\ made = NoBlocks
    /\ calls = 0
    /\ bus = NoBus
    /\ disk = NoDisk
    /\ mgr = NoManager
    /\ thr = NoThreads

ValidateNext == \E parts \in ValidateInputs : Validate(parts)

SpecValidate == ValidateInit /\ [][ValidateNext]_vars

\* ------------------------------------------------------------ event bus
\* on, off and _trigger_event of CacheHandler (event_handler.py has the same
\* three methods word for word).  Observers are kept in Python sets, one per
\* (cache name, kind) pair and one per kind, so a set is walked in an order
\* the program does not choose.  The three methods hold the manager's
\* re-entrant lock: while a delivery is in progress no other thread
\* registers or removes, but the observer being called may.  Each call of an
\* observer is one step.
BusCaches == {"c1", "c2"}

BusKinds == {"delete", "clear"}

\* what an observer does when called: return, raise an Exception, or
\* remove itself from the set it is being called from (a one-shot observer)
Observers == {"returns", "raises", "once"}

MaxRegs == 3

\* self._event_handlers.get((cache_name, event), set())
ScopedSet(b, c, e) == {r[3] : r \in {x \in b.event_handlers : x[1] = c /\ x[2] = e}}

\* self._global_handlers.get(event, set())
GlobalSet(b, e) == {r[2] : r \in {x \in b.global_handlers : x[1] = e}}

\* the set the loop in progress walks
Walked(b) ==
    IF b.pc = "scoped" THEN ScopedSet(b, b.cache, b.event)
    ELSE GlobalSet(b, b.event)

BusIdle == bus.pc = "idle"

\* the record of the last delivery is dropped when the registrations change
Fresh(b) == [b EXCEPT !.cache = "", !.event = "", !.seen = {}, !.size = 0,
                      !.called = <<>>, !.outcome = "none",
                      !.due = [scoped |-> {}, global |-> {}]]

\* on(event, callback, cache_name)
On(c, e, h) ==
    /\ BusIdle
    /\ Cardinality(bus.event_handlers) + Cardinality(bus.global_handlers) < MaxRegs
    /\ bus' = [Fresh(bus) EXCEPT !.event_handlers = @ \cup {<<c, e, h>>}]
    /\ last' = [NoCall EXCEPT !.op = "on"]
    /\ UNCHANGED <<now, store, default_ttl, wrote, conn, replies, nrecv,
                   cacheVars, disk, mgr, thr>>

\* on(event, callback)
OnGlobal(e, h) ==
    /\ BusIdle
    /\ Cardinality(bus.event_handlers) + Cardinality(bus.global_handlers) < MaxRegs
    /\ bus' = [Fresh(bus) EXCEPT !.global_handlers = @ \cup {<<e, h>>}]
    /\ last' = [NoCall EXCEPT !.op = "on", !.flag = TRUE]
    /\ UNCHANGED <<now, store, default_ttl, wrote, conn, replies, nrecv,
                   cacheVars, disk, mgr, thr>>

\* off(event, callback, cache_name): set.remove raises KeyError when the
\* callback is not registered, and off returns False
Off(c, e, h) ==
    /\ BusIdle
    /\ bus' = [Fresh(bus) EXCEPT !.event_handlers = @ \ {<<c, e, h>>}]
    /\ last' = [NoCall EXCEPT !.op = "off",
                  !.ret = IF <<c, e, h>> \in bus.event_handlers
                          THEN "True" ELSE "False"]
    /\ UNCHANGED <<now, store, default_ttl, wrote, conn, replies, nrecv,
                   cacheVars, disk, mgr, thr>>

\* off(event, callback)
OffGlobal(e, h) ==
    /\ BusIdle
    /\ bus' = [Fresh(bus) EXCEPT !.global_handlers = @ \ {<<e, h>>}]
    /\ last' = [NoCall EXCEPT !.op = "off", !.flag = TRUE,
                  !.ret = IF <<e, h>> \in bus.global_handlers
                          THEN "True" ELSE "False"]
    /\ UNCHANGED <<now, store, default_ttl, wrote, conn, replies, nrecv,
                   cacheVars, disk, mgr, thr>>

\* _trigger_event(event, context) is entered: the lock is taken and the
\* loop over the observers of (context.cache_name, event) starts
Trigger(c, e) ==
    /\ BusIdle
    /\ bus' = [bus EXCEPT !.pc = "scoped", !.cache = c, !.event = e,
                          !.seen = {}, !.called = <<>>,
                          !.outcome = "running",
                          !.size = Cardinality(ScopedSet(bus, c, e)),
                          !.due = [scoped |-> ScopedSet(bus, c, e),
                                   global |-> GlobalSet(bus, e)]]
    /\ last' = [NoCall EXCEPT !.op = "trigger"]
    /\ UNCHANGED <<now, store, default_ttl, wrote, conn, replies, nrecv,
                   cacheVars, disk, mgr, thr>>

\* (mutant) no try/except around the call: what the observer raises leaves
\* the loop
EscapesUncaught(h) == h = "raises"

\* try: handler(context) / except Exception: pass -- nothing an observer
\* raises leaves the loop body
Escapes(h) == FALSE

\* the registrations after observer h, called from the loop in progress,
\* has run
AfterCall(b, h) ==
    IF h # "once" THEN b
    ELSE IF b.pc = "scoped"
         THEN [b EXCEPT !.event_handlers = @ \ {<<b.cache, b.event, h>>}]
         ELSE [b EXCEPT !.global_handlers = @ \ {<<b.event, h>>}]

\* the iterator yields the next observer and the loop body calls it
CallObserver(h) ==
    /\ bus.pc \in {"scoped", "global"}
    /\ Cardinality(Walked(bus)) = bus.size
    /\ h \in Walked(bus) \ bus.seen
    /\ LET b1 == [AfterCall(bus, h) EXCEPT
                    !.seen = @ \cup {h},
                    !.called = Append(@, [observer |-> h, phase |-> bus.pc])]
       IN  bus' = IF Escapes(h)
                  THEN [b1 EXCEPT !.pc = "idle", !.seen = {},
                                  !.outcome = "Exception"]
                  ELSE b1
    /\ UNCHANGED <<now, store, default_ttl, last, wrote, conn, replies, nrecv,
                   cacheVars, disk, mgr, thr>>

\* the iterator finds the set changed since the loop started: RuntimeError
\* ("Set changed size during iteration") is raised by the for statement
\* itself, outside the try block, and leaves _trigger_event
LoopRaises ==
    /\ bus.pc \in {"scoped", "global"}
    /\ Cardinality(Walked(bus)) # bus.size
    /\ bus' = [bus EXCEPT !.pc = "idle", !.seen = {},
                          !.outcome = "RuntimeError"]
    /\ UNCHANGED <<now, store, default_ttl, last, wrote, conn, replies, nrecv,
                   cacheVars, disk, mgr, thr>>

\* the loop over the cache-scoped observers is exhausted: the loop over
\* self._global_handlers.get(event, set()) starts
LoopGlobal ==
    /\ bus.pc = "scoped"
    /\ Cardinality(Walked(bus)) = bus.size
    /\ Walked(bus) \subseteq bus.seen
    /\ bus' = [bus EXCEPT !.pc = "global", !.seen = {},
                          !.size = Cardinality(GlobalSet(bus, bus.event))]
    /\ UNCHANGED <<now, store, default_ttl, last, wrote, conn, replies, nrecv,
                   cacheVars, disk, mgr, thr>>

\* the loop over the global observers is exhausted: _trigger_event returns
TriggerReturns ==
    /\ bus.pc = "global"
    /\ Cardinality(Walked(bus)) = bus.size
    /\ Walked(bus) \subseteq bus.seen
    /\ bus' = [bus EXCEPT !.pc = "idle", !.seen = {},
                          !.outcome = "returned"]
    /\ UNCHANGED <<now, store, default_ttl, last, wrote, conn, replies, nrecv,
                   cacheVars, disk, mgr, thr>>

\* a manager right after construction: no observer registered
BusInit ==
    /\ now = 1
    /\ store = <<>>
    /\ default_ttl = NoTtl
    /\ last = NoCall
    /\ wrote = NoCacheWrites
    /\ conn = IdleConn
    /\ replies = <<>>
    /\ nrecv = 0
    /\ stats = NoBlocks
    /\ events = <<>>
    /\ made = NoBlocks
    /\ calls = 0
    /\ bus = NoBus
    /\ disk = NoDisk
    /\ mgr = NoManager
    /\ thr = NoThreads

BusNext ==
    \/ \E c \in BusCaches, e \in BusKinds, h \in Observers : On(c, e, h)
    \/ \E e \in BusKinds, h \in Observers : OnGlobal(e, h)
    \/ \E c \in BusCaches, e \in BusKinds, h \in Observers : Off(c, e, h)
    \/ \E e \in BusKinds, h \in Observers : OffGlobal(e, h)
    \/ \E c \in BusCaches, e \in BusKinds : Trigger(c, e)
    \/ \E h \in Observers : CallObserver(h)
    \/ LoopRaises
    \/ LoopGlobal
    \/ TriggerReturns

SpecBus == BusInit /\ [][BusNext]_vars

\* ------------------------------------------- the threads of the store
\* ExpiringStore with its threads told apart: the reaper thread running
\* _auto_cleanup, connections inside set(), and a thread calling stop().
\* set() computes the expiry before it takes the lock and writes the
\* (value, expiry) tuple under the lock, so it is two steps; cleanup()
\* reads the clock before it takes the lock and removes the expired
\* entries under the lock, so a sweep is two steps as well.
Conns == {"a", "b"}

\* the key the connections write and the value each of them writes
ThreadKeys == {"k1"}

ValueOf(c) == IF c = "a" THEN "v1" ELSE "v2"

MaxSets == 2

MaxStops == 2

NoPending == [key |-> "", value |-> PyNone, expiry |-> NoExpiry]

\* a store just constructed: the reaper thread is at its loop test
StartedThreads ==
    [NoThreads EXCEPT !.reaper = "check",
                      !.setters = [c \in Conns |-> NoPending]]

\* set, before the lock: expiry = time.time() + ttl
SetBegin(c, k, v, ttl) ==
    /\ thr.setters[c] = NoPending
    /\ thr.nsets < MaxSets
    /\ LET p == [key |-> k, value |-> v,
                 expiry |-> SetExpiry(ttl, default_ttl, now)]
       IN  thr' = [thr EXCEPT
                     !.setters[c] = p, !.nsets = @ + 1,
                     !.written = @ \cup {<<k, v, p.expiry>>},
                     !.overlap = @ \/ \E d \in Conns \ {c} :
                                         thr.setters[d].key = k]
    /\ UNCHANGED <<now, store, default_ttl, last, wrote, conn, replies, nrecv,
                   cacheVars, bus, disk, mgr>>

\* (mutant) the value is stored first and the expiry in a later step that
\* never comes: an entry already there keeps its old expiry
CommitValueOnly(s, p) ==
    IF HasKey(s, p.key)
    THEN DictAssign(s, p.key, p.value, s[IndexOf(s, p.key)].expiry)
    ELSE DictAssign(s, p.key, p.value, NoExpiry)

\* with self._lock: self._store[key] = (value, expiry)
CommitEntry(s, p) == DictAssign(s, p.key, p.value, p.expiry)

\* set, under the lock
SetCommit(c) ==
    /\ thr.setters[c] # NoPending
    /\ store' = CommitEntry(store, thr.setters[c])
    /\ thr' = [thr EXCEPT
                 !.setters[c] = NoPending,
                 !.final = Put(@, thr.setters[c].key,
                               <<thr.setters[c].value, thr.setters[c].expiry>>)]
    /\ last' = [NoCall EXCEPT !.op = "set", !.key = thr.setters[c].key,
                              !.value = thr.setters[c].value, !.cache = c]
    /\ UNCHANGED <<now, default_ttl, wrote, conn, replies, nrecv,
                   cacheVars, bus, disk, mgr>>

\* _auto_cleanup: while not self._stop_event.is_set()
ReaperCheck ==
    /\ thr.reaper = "check"
    /\ thr' = IF thr.stop_event
              THEN [thr EXCEPT !.reaper = "done"]
              ELSE [thr EXCEPT !.reaper = "sweep", !.sweep_now = now]
    /\ UNCHANGED <<now, store, default_ttl, last, wrote, conn, replies, nrecv,
                   cacheVars, bus, disk, mgr>>

\* cleanup, under the lock, with the clock value read before the lock;
\* then time.sleep(cleanup_interval) and back to the loop test
ReaperSweep ==
    /\ thr.reaper = "sweep"
    /\ store' = StoreCleanup(store, thr.sweep_now)
    /\ thr' = [thr EXCEPT
                 !.reaper = "check", !.sweep_now = 0,
                 !.reaped = @ \cup {store[i].key : i \in
                     {j \in 1..Len(store) :
                        Expired(store[j].expiry, thr.sweep_now)}}]
    /\ UNCHANGED <<now, default_ttl, last, wrote, conn, replies, nrecv,
                   cacheVars, bus, disk, mgr>>

\* stop: self._stop_event.set()
StopSet ==
    /\ thr.stopper = "idle"
    /\ thr.stops < MaxStops
    /\ thr' = [thr EXCEPT !.stop_event = TRUE, !.stopper = "join"]
    /\ UNCHANGED <<now, store, default_ttl, last, wrote, conn, replies, nrecv,
                   cacheVars, bus, disk, mgr>>

\* (mutant) stop does not wait for the thread
JoinedAlways(t) == TRUE

\* self._thread.join() returns once the reaper thread has ended
Joined(t) == t.reaper = "done"

\* stop: self._thread.join()
StopJoin ==
    /\ thr.stopper = "join"
    /\ Joined(thr)
    /\ thr' = [thr EXCEPT !.stopper = "idle", !.stops = @ + 1]
    /\ last' = [NoCall EXCEPT !.op = "stop", !.n = thr.stops + 1]
    /\ UNCHANGED <<now, store, default_ttl, wrote, conn, replies, nrecv,
                   cacheVars, bus, disk, mgr>>

\* ExpiringStore(default_ttl) right after construction
ThreadsInit ==
    /\ now = 1
    /\ store = <<>>
    /\ default_ttl \in {NoTtl, MaxTtl}
    /\ last = NoCall
    /\ wrote = NoWrites
    /\ conn = IdleConn
    /\ replies = <<>>
    /\ nrecv = 0
    /\ stats = NoBlocks
    /\ events = <<>>
    /\ made = NoBlocks
    /\ calls = 0
    /\ bus = NoBus
    /\ disk = NoDisk
    /\ mgr = NoManager
    /\ thr = StartedThreads

ReaperNext == ReaperCheck \/ ReaperSweep

ThreadsNext ==
    \/ \E c \in Conns, k \in ThreadKeys, ttl \in CacheTtls :
          SetBegin(c, k, ValueOf(c), ttl)
    \/ \E c \in Conns : SetCommit(c)
    \/ \E k \in ThreadKeys : Get(k, PyNone)
    \/ \E k \in ThreadKeys : ContainsOp(k)
    \/ ReaperCheck
    \/ ReaperSweep
    \/ StopSet
    \/ StopJoin
    \/ Tick

SpecThreads == ThreadsInit /\ [][ThreadsNext]_vars

\* the reaper thread is scheduled again and again: each of its steps, once
\* enabled, stays enabled until the reaper takes it
FairThreads == SpecThreads /\ WF_vars(ReaperNext)

\* ------------------------------------------------------------ persistence
\* The cache manager with a persistence directory.  A file <name>.json.gz
\* or <name>.json holds the JSON text of {'data': cache, 'stats': block};
\* the directory outlives the manager.  One caller thread makes the calls;
\* the auto-persist thread and the reaper of the outer store run beside it.
\* persist() is one step: it reads the cache with one store.get and
\* serialises the dictionary it got.
PersistCaches == {"c1"}

PersistKeys == {"k1"}

\* a value json.dumps rejects (a set, bytes, an object)
Opaque == "<object>"

PersistVals == {"v1", "v2", Opaque}

MaxRestarts == 1

\* json.dumps of a dictionary: the text lists the pairs in order
DumpsData(dct) == [i \in 1..Len(dct) |-> <<dct[i].key, dct[i].value>>]

\* json.loads of that text
LoadsData(text) == [i \in 1..Len(text) |-> Item(text[i][1], text[i][2])]

\* json.dumps raises TypeError on a value that is not JSON-serialisable
Serialisable(dct) == \A i \in 1..Len(dct) : dct[i].value # Opaque

\* vars(self._stats.get(cache_name, CacheStats()))
BlockOf(st, c) == IF c \in DOMAIN st THEN st[c] ELSE ZeroStats

\* the path persist writes: compressed or plain
PathOf(m, c) == <<c, IF m.compress THEN "json.gz" ELSE "json">>

\* persist returns True
PersistOk(c) ==
    /\ mgr.dir
    /\ CacheLive(store, c, now)
    /\ Serialisable(CacheOf(store, c))

\* the payload persist writes
Payload(c) ==
    [data |-> DumpsData(CacheOf(store, c)), stats |-> BlockOf(stats, c)]

\* the directory after persist(c)
DiskAfterPersist(c) ==
    IF PersistOk(c)
    THEN [files |-> Put(disk.files, PathOf(mgr, c), Payload(c)),
          saved |-> Put(disk.saved, c, Payload(c))]
    ELSE disk

\* the outer store after persist(c): store.get removes an expired cache
StoreAfterPersist(c) == IF mgr.dir THEN GetStore(store, c, now) ELSE store

\* persist(cache_name), called by the caller thread
Persist(c) ==
    /\ Call
    /\ disk' = DiskAfterPersist(c)
    /\ store' = StoreAfterPersist(c)
    /\ last' = [NoCall EXCEPT !.op = "persist", !.cache = c,
                  !.ret = IF PersistOk(c) THEN "True" ELSE "False"]
    /\ UNCHANGED <<now, default_ttl, wrote, conn, replies, nrecv, stats,
                   events, made, bus, mgr, thr>>

\* the file load_persistent reads: the compressed one when it exists
FileFor(files, c) ==
    IF <<c, "json.gz">> \in DOMAIN files THEN <<c, "json.gz">>
    ELSE <<c, "json">>

HasFile(files, c) == FileFor(files, c) \in DOMAIN files

\* load_persistent, under the lock: the cache and the stats block are
\* installed from the payload
LoadInto(st, files, c, dflt, t) ==
    LET pl == files[FileFor(files, c)]
    IN  [store |-> StoreSet(st.store, c, LoadsData(pl.data), NoTtl, dflt, t),
         stats |-> Put(st.stats, c, pl.stats)]

\* load_persistent(cache_name): after the cache and the stats block are
\* installed, the CacheEventContext of the CREATE_CACHE event is built
\* without its required field `key`; the TypeError is caught by
\* `except Exception` and the call returns False
LoadPersistent(c) ==
    /\ Call
    /\ IF mgr.dir /\ HasFile(disk.files, c)
       THEN LET st == LoadInto([store |-> store, stats |-> stats],
                               disk.files, c, default_ttl, now)
            IN  /\ store' = st.store
                /\ stats' = st.stats
                /\ made' = Put(made, c, [ttl |-> NoTtl, reads |-> 0])
                /\ wrote' = Forget(wrote, c)
                /\ last' = [NoCall EXCEPT !.op = "load_persistent",
                                          !.cache = c, !.ret = "False",
                                          !.flag = TRUE]
       ELSE /\ last' = [NoCall EXCEPT !.op = "load_persistent",
                                      !.cache = c, !.ret = "False"]
            /\ UNCHANGED <<store, stats, made, wrote>>
    /\ UNCHANGED <<now, default_ttl, conn, replies, nrecv, events, bus, disk,
                   mgr, thr>>

\* the orders in which os.listdir may give the names of S
Orders(S) ==
    {q \in [1..Cardinality(S) -> S] : {q[i] : i \in 1..Cardinality(S)} = S}

\* _load_persistent_caches: the names of the files that end in '.json'
BootNames(files) == {c \in Caches : <<c, "json">> \in DOMAIN files}

RECURSIVE BootLoad(_, _, _, _, _)
BootLoad(st, files, order, dflt, t) ==
    IF order = <<>> THEN st
    ELSE BootLoad(LoadInto(st, files, Head(order), dflt, t), files,
                  Tail(order), dflt, t)

\* the process ends and a new manager is constructed on the same directory:
\* CacheHandler(persistence_dir, auto_persist_interval, compress_persistence)
\* with auto_persist_interval > 0 (auto) or 0
Restart(compress, auto) ==
    /\ last.pc = "idle"
    /\ mgr.pc = "idle"
    /\ mgr.gen < MaxRestarts
    /\ \E order \in Orders(BootNames(disk.files)) :
          LET st == BootLoad([store |-> <<>>, stats |-> NoBlocks], disk.files,
                             order, default_ttl, now)
          IN  /\ store' = st.store
              /\ stats' = st.stats
              /\ made' = [c \in DOMAIN st.stats |-> [ttl |-> NoTtl, reads |-> 0]]
    /\ mgr' = [NoManager EXCEPT !.dir = TRUE, !.compress = compress,
                                !.persist = IF auto THEN "check" ELSE "none",
                                !.gen = mgr.gen + 1]
    /\ thr' = [NoThreads EXCEPT !.reaper = "check"]
    /\ bus' = NoBus
    /\ wrote' = NoCacheWrites
    /\ events' = <<>>
    /\ calls' = 0
    /\ last' = [NoCall EXCEPT !.op = "init"]
    /\ UNCHANGED <<now, default_ttl, conn, replies, nrecv, disk>>

\* _auto_persist_loop: the loop test, then persist_all calls list_caches
PersistLoop ==
    /\ mgr.persist = "check"
    /\ IF mgr.stop_persist
       THEN /\ mgr' = [mgr EXCEPT !.persist = "done"]
            /\ UNCHANGED store
       ELSE /\ mgr' = [mgr EXCEPT !.persist = "write",
                                  !.todo = StoreKeys(store, now)]
            /\ store' = StoreCleanup(store, now)
    /\ UNCHANGED <<now, default_ttl, last, wrote, conn, replies, nrecv,
                   cacheVars, bus, disk, thr>>

\* persist_all in the auto-persist thread: the next cache of the list is
\* persisted
PersistWrite ==
    /\ mgr.persist = "write"
    /\ mgr.todo # <<>>
    /\ disk' = DiskAfterPersist(Head(mgr.todo))
    /\ store' = StoreAfterPersist(Head(mgr.todo))
    /\ mgr' = [mgr EXCEPT !.todo = Tail(@)]
    /\ UNCHANGED <<now, default_ttl, last, wrote, conn, replies, nrecv,
                   cacheVars, bus, thr>>

\* persist_all has returned: time.sleep(interval), then the loop test
PersistSleep ==
    /\ mgr.persist = "write"
    /\ mgr.todo = <<>>
    /\ mgr' = [mgr EXCEPT !.persist = "check"]
    /\ UNCHANGED <<now, store, default_ttl, last, wrote, conn, replies, nrecv,
                   cacheVars, bus, disk, thr>>

\* stop: self._stop_persist.set(), when the manager has the attribute
MgrStop ==
    /\ Call
    /\ mgr.pc = "idle"
    /\ mgr' = IF mgr.persist # "none"
              THEN [mgr EXCEPT !.stop_persist = TRUE, !.pc = "join"]
              ELSE [mgr EXCEPT !.pc = "list"]
    /\ last' = [NoCall EXCEPT !.op = "stop", !.pc = "stop"]
    /\ UNCHANGED <<now, store, default_ttl, wrote, conn, replies, nrecv,
                   stats, events, made, bus, disk, thr>>

\* stop: self._persist_thread.join()
MgrStopJoin ==
    /\ mgr.pc = "join"
    /\ mgr.persist = "done"
    /\ mgr' = [mgr EXCEPT !.pc = "list"]
    /\ UNCHANGED <<now, store, default_ttl, last, wrote, conn, replies, nrecv,
                   cacheVars, bus, disk, thr>>

\* (mutant) stop takes no final snapshot
FinalListNone(s, t) == <<>>

\* stop: persist_all() calls list_caches()
FinalList(s, t) == StoreKeys(s, t)

MgrStopList ==
    /\ mgr.pc = "list"
    /\ mgr' = [mgr EXCEPT !.pc = "final", !.stodo = FinalList(store, now)]
    /\ store' = StoreCleanup(store, now)
    /\ UNCHANGED <<now, default_ttl, last, wrote, conn, replies, nrecv,
                   cacheVars, bus, disk, thr>>

\* stop: persist_all() persists the next cache of its list
MgrStopWrite ==
    /\ mgr.pc = "final"
    /\ mgr.stodo # <<>>
    /\ disk' = DiskAfterPersist(Head(mgr.stodo))
    /\ store' = StoreAfterPersist(Head(mgr.stodo))
    /\ mgr' = [mgr EXCEPT !.stodo = Tail(@)]
    /\ UNCHANGED <<now, default_ttl, last, wrote, conn, replies, nrecv,
                   cacheVars, bus, thr>>

\* stop: self._store.stop() sets the stop flag of the outer store
MgrStopStore ==
    /\ mgr.pc = "final"
    /\ mgr.stodo = <<>>
    /\ mgr' = [mgr EXCEPT !.pc = "store_join"]
    /\ thr' = [thr EXCEPT !.stop_event = TRUE]
    /\ UNCHANGED <<now, store, default_ttl, last, wrote, conn, replies, nrecv,
                   cacheVars, bus, disk>>

\* stop: the join inside self._store.stop() returns, and stop returns
MgrStopReturn ==
    /\ mgr.pc = "store_join"
    /\ Joined(thr)
    /\ mgr' = [mgr EXCEPT !.pc = "idle", !.stopped = TRUE]
    /\ last' = [last EXCEPT !.pc = "idle"]
    /\ UNCHANGED <<now, store, default_ttl, wrote, conn, replies, nrecv,
                   cacheVars, bus, disk, thr>>

\* what a manager with compression leaves in the directory after
\* set('c1', 'k1', 'v1') and persist('c1')
EarlierPayload ==
    [data |-> <<<<"k1", "v1">>>>, stats |-> [ZeroStats EXCEPT !.items = 1]]

EarlierDisk ==
    [files |-> Put(NoDisk.files, <<"c1", "json.gz">>, EarlierPayload),
     saved |-> Put(NoDisk.saved, "c1", EarlierPayload)]

\* a manager constructed on an empty directory, or on the directory an
\* earlier manager with compression left: _load_persistent_caches finds no
\* name ending in '.json' and loads nothing
PersistInit ==
    /\ now = 1
    /\ store = <<>>
    /\ default_ttl = NoTtl
    /\ last = [NoCall EXCEPT !.op = "init"]
    /\ wrote = NoCacheWrites
    /\ conn = IdleConn
    /\ replies = <<>>
    /\ nrecv = 0
    /\ stats = NoBlocks
    /\ events = <<>>
    /\ made = NoBlocks
    /\ calls = 0
    /\ bus = NoBus
    /\ disk \in {NoDisk, EarlierDisk}
    /\ \E compress \in BOOLEAN, auto \in BOOLEAN :
          mgr = [NoManager EXCEPT !.dir = TRUE, !.compress = compress,
                                  !.persist = IF auto THEN "check" ELSE "none"]
    /\ thr = [NoThreads EXCEPT !.reaper = "check"]

PersistNext ==
    \/ \E c \in PersistCaches, k \in PersistKeys, v \in PersistVals :
          CacheSet(c, k, v, NoTtl)
    \/ \E c \in PersistCaches, k \in PersistKeys : CacheGet(c, k)
    \/ \E c \in PersistCaches : DeleteCache(c)
    \/ DeleteCacheDel
    \/ \E c \in PersistCaches : Persist(c)
    \/ \E c \in PersistCaches : LoadPersistent(c)
    \/ \E compress \in BOOLEAN, auto \in BOOLEAN : Restart(compress, auto)
    \/ PersistLoop
    \/ PersistWrite
    \/ PersistSleep
    \/ MgrStop
    \/ MgrStopJoin
    \/ MgrStopList
    \/ MgrStopWrite
    \/ MgrStopStore
    \/ MgrStopReturn
    \/ ReaperCheck
    \/ ReaperSweep

SpecPersist == PersistInit /\ [][PersistNext]_vars

\* ------------------------------------------------- persist, step by step
\* persist(cache_name) run by one thread while the caller thread sets and
\* deletes keys of the same cache.  persist takes no lock: store.get hands
\* out the dictionary of the cache itself, json.dumps encodes it in one
\* call of the C encoder (no other thread runs inside that call), and the
\* file is then opened with mode 'wb', which empties it, and written.
\* open and write can fail with OSError (no permission, no space left, file
\* size limit); `except Exception` turns every failure into False.
SnapKeys == {"k1", "k2"}

SnapVals == {"v1", Opaque}

MaxSnaps == 2

\* a file that was opened for writing and never received its whole text
Truncated == [torn |-> TRUE]

IsTorn(f) == "torn" \in DOMAIN f

\* load_persistent finds a file of the cache and json.loads accepts it
Loadable(files, c) ==
    HasFile(files, c) /\ ~IsTorn(files[FileFor(files, c)])

\* (mutant) the encoder reads the dictionary while it grows and misses the
\* last pair
EncodedTorn(dct) ==
    IF dct = <<>> THEN <<>> ELSE DumpsData(SubSeq(dct, 1, Len(dct) - 1))

\* json.dumps({'data': cache, ...}): the pairs the dictionary holds at the
\* moment of the call
Encoded(dct) == DumpsData(dct)

SnapIdle == mgr.snap.pc = "idle"

\* persist: `cache = self._store.get(cache_name)`; None ends the call
SnapBegin(c) ==
    /\ SnapIdle
    /\ mgr.dir
    /\ mgr.snap.n < MaxSnaps
    /\ store' = GetStore(store, c, now)
    /\ mgr' = [mgr EXCEPT !.snap =
                 IF CacheLive(store, c, now)
                 THEN [NoManager.snap EXCEPT
                          !.pc = "got", !.cache = c, !.n = mgr.snap.n + 1,
                          !.at = CacheOf(store, c),
                          !.before = IF PathOf(mgr, c) \in DOMAIN disk.files
                                     THEN {disk.files[PathOf(mgr, c)]}
                                     ELSE {}]
                 ELSE [NoManager.snap EXCEPT
                          !.cache = c, !.n = mgr.snap.n + 1,
                          !.ret = "False"]]
    /\ UNCHANGED <<now, default_ttl, last, wrote, conn, replies, nrecv,
                   cacheVars, bus, disk, thr>>

\* persist: json.dumps of the dictionary and of the stats block; a value
\* that is not serialisable raises TypeError
SnapDump ==
    /\ mgr.snap.pc = "got"
    /\ LET dct == CacheOf(store, mgr.snap.cache)
       IN  mgr' = [mgr EXCEPT !.snap =
                     IF Serialisable(dct)
                     THEN [@ EXCEPT !.pc = "dumped",
                              !.data = [data |-> Encoded(dct),
                                        stats |-> BlockOf(stats, mgr.snap.cache)]]
                     ELSE [@ EXCEPT !.pc = "idle", !.ret = "False"]]
    /\ UNCHANGED <<now, store, default_ttl, last, wrote, conn, replies, nrecv,
                   cacheVars, bus, disk, thr>>

\* persist: open(path, 'wb') or gzip.open(path, 'wb') empties the file, or
\* raises and leaves it alone
SnapOpen(ok) ==
    /\ mgr.snap.pc = "dumped"
    /\ IF ok
       THEN /\ disk' = [disk EXCEPT !.files =
                          Put(@, PathOf(mgr, mgr.snap.cache), Truncated)]
            /\ mgr' = [mgr EXCEPT !.snap.pc = "opened"]
       ELSE /\ mgr' = [mgr EXCEPT !.snap.pc = "idle", !.snap.ret = "False"]
            /\ UNCHANGED disk
    /\ UNCHANGED <<now, store, default_ttl, last, wrote, conn, replies, nrecv,
                   cacheVars, bus, thr>>

\* persist: f.write(data) and the close of the file; when one of them
\* raises the file keeps what reached it, not the whole text
SnapWrite(ok) ==
    /\ mgr.snap.pc = "opened"
    /\ IF ok
       THEN /\ disk' = [files |-> Put(disk.files, PathOf(mgr, mgr.snap.cache),
                                      mgr.snap.data),
                        saved |-> Put(disk.saved, mgr.snap.cache,
                                      mgr.snap.data)]
            /\ mgr' = [mgr EXCEPT !.snap.pc = "idle", !.snap.ret = "True"]
       ELSE /\ mgr' = [mgr EXCEPT !.snap.pc = "idle", !.snap.ret = "False"]
            /\ UNCHANGED disk
    /\ UNCHANGED <<now, store, default_ttl, last, wrote, conn, replies, nrecv,
                   cacheVars, bus, thr>>

\* a manager on an empty directory or on the directory an earlier manager
\* left; no auto-persist thread (auto_persist_interval = 0)
SnapInit ==
    /\ now = 1
    /\ store = <<>>
    /\ default_ttl = NoTtl
    /\ last = [NoCall EXCEPT !.op = "init"]
    /\ wrote = NoCacheWrites
    /\ conn = IdleConn
    /\ replies = <<>>
    /\ nrecv = 0
    /\ stats = NoBlocks
    /\ events = <<>>
    /\ made = NoBlocks
    /\ calls = 0
    /\ bus = NoBus
    /\ disk \in {NoDisk, EarlierDisk}
    /\ \E compress \in BOOLEAN :
          mgr = [NoManager EXCEPT !.dir = TRUE, !.compress = compress]
    /\ thr = NoThreads

SnapNext ==
    \/ \E c \in PersistCaches, k \in SnapKeys, v \in SnapVals :
          CacheSet(c, k, v, NoTtl)
    \/ \E c \in PersistCaches, k \in SnapKeys : CacheDelete(c, k)
    \/ \E c \in PersistCaches : SnapBegin(c)
    \/ SnapDump
    \/ \E ok \in BOOLEAN : SnapOpen(ok)
    \/ \E ok \in BOOLEAN : SnapWrite(ok)

SpecSnap == SnapInit /\ [][SnapNext]_vars

\* --------------------------------------------------------- LoggingHandler
\* self.lock is a threading.Lock: it has no owner and cannot be acquired
\* again by the thread that holds it.  Each log method writes the line under
\* `with self.lock:` and, still inside that block, calls _add_to_memory,
\* which begins with `with self.lock:` itself.
LogThreads == {"t1", "t2"}

\* the log methods; the entry a method adds is named after it
LogMethods == {"log_command", "log_response", "log_error", "log_connection",
               "log_server_event", "log"}

LogTexts == {"m1", "m2"}

\* max_memory_logs, 1000 in the code
MaxMemoryLogs == 2

\* the file takes lines without limit; the model counts up to here
MaxLines == 2

\* self.logs[-self.max_memory_logs:]
LastLogs(q) ==
    IF Len(q) > MaxMemoryLogs
    THEN SubSeq(q, Len(q) - MaxMemoryLogs + 1, Len(q))
    ELSE q

\* thread t calls one of the log methods: the message is built before the
\* lock is requested
LogCall(t, m) ==
    /\ thr.log.pc[t] = "idle"
    /\ thr' = [thr EXCEPT !.log.pc[t] = "log_acquire", !.log.msg[t] = m,
                          !.log.nested[t] = TRUE]
    /\ UNCHANGED <<now, store, default_ttl, last, wrote, conn, replies, nrecv,
                   cacheVars, bus, disk, mgr>>

\* thread t calls _add_to_memory(message) itself
AddCall(t, m) ==
    /\ thr.log.pc[t] = "idle"
    /\ thr' = [thr EXCEPT !.log.pc[t] = "add_acquire", !.log.msg[t] = m,
                          !.log.nested[t] = FALSE]
    /\ UNCHANGED <<now, store, default_ttl, last, wrote, conn, replies, nrecv,
                   cacheVars, bus, disk, mgr>>

\* a log method: `with self.lock:` is entered once the lock is free
LogAcquire(t) ==
    /\ thr.log.pc[t] = "log_acquire"
    /\ thr.log.lock = "free"
    /\ thr' = [thr EXCEPT !.log.lock = t, !.log.pc[t] = "log_write"]
    /\ UNCHANGED <<now, store, default_ttl, last, wrote, conn, replies, nrecv,
                   cacheVars, bus, disk, mgr>>

\* a log method: self.logger.info(message) appends the line to the file;
\* the call of _add_to_memory follows, inside the block
LogWrite(t) ==
    /\ thr.log.pc[t] = "log_write"
    /\ thr' = [thr EXCEPT !.log.file = IF @ < MaxLines THEN @ + 1 ELSE @,
                          !.log.pc[t] = "add_acquire"]
    /\ UNCHANGED <<now, store, default_ttl, last, wrote, conn, replies, nrecv,
                   cacheVars, bus, disk, mgr>>

\* _add_to_memory: `with self.lock:` is entered once the lock is free,
\* whoever holds it
AddAcquire(t) ==
    /\ thr.log.pc[t] = "add_acquire"
    /\ thr.log.lock = "free"
    /\ thr' = [thr EXCEPT !.log.lock = t, !.log.pc[t] = "add_append"]
    /\ UNCHANGED <<now, store, default_ttl, last, wrote, conn, replies, nrecv,
                   cacheVars, bus, disk, mgr>>

\* _add_to_memory: the entry is appended, the buffer is cut to its last
\* max_memory_logs entries, the block ends and releases the lock.  A log
\* method would go on from here to the end of its own block; no log method
\* gets here.
AddAppend(t) ==
    /\ thr.log.pc[t] = "add_append"
    /\ thr' = [thr EXCEPT
                 !.log.logs = LastLogs(Append(@, thr.log.msg[t])),
                 !.log.lock = "free",
                 !.log.pc[t] = IF thr.log.nested[t] THEN "log_exit"
                               ELSE "idle"]
    /\ UNCHANGED <<now, store, default_ttl, last, wrote, conn, replies, nrecv,
                   cacheVars, bus, disk, mgr>>

\* LoggingHandler(): a free lock and an empty buffer
LogInit ==
    /\ now = 1
    /\ store = <<>>
    /\ default_ttl = NoTtl
    /\ last = NoCall
    /\ wrote = NoWrites
    /\ conn = IdleConn
    /\ replies = <<>>
    /\ nrecv = 0
    /\ stats = NoBlocks
    /\ events = <<>>
    /\ made = NoBlocks
    /\ calls = 0
    /\ bus = NoBus
    /\ disk = NoDisk
    /\ mgr = NoManager
    /\ thr = NoThreads

\* the steps thread t takes inside a call
LogStep(t) ==
    \/ LogAcquire(t)
    \/ LogWrite(t)
    \/ AddAcquire(t)
    \/ AddAppend(t)

LogNext ==
    \/ \E t \in LogThreads, m \in LogMethods : LogCall(t, m)
    \/ \E t \in LogThreads, m \in LogTexts : AddCall(t, m)
    \/ \E t \in LogThreads : LogAcquire(t)
    \/ \E t \in LogThreads : LogWrite(t)
    \/ \E t \in LogThreads : AddAcquire(t)
    \/ \E t \in LogThreads : AddAppend(t)

SpecLog == LogInit /\ [][LogNext]_vars

\* every thread keeps being scheduled, and a thread that finds the lock
\* free again and again gets it in the end
FairLog == SpecLog /\ \A t \in LogThreads : SF_vars(LogStep(t))

\* ------------------------------------------- two connections on one store
\* The worker of one connection runs DEL, LPOP and EXPIRE step by step
\* (each store call takes the store's lock by itself and the handlers hold
\* no lock across calls) while the worker of another connection makes the
\* store calls of its own commands: store.set for SET k v, and the
\* `del self.store[key]` of DEL k.  The reaper and the clock run beside
\* them.
RaceKeys == {"k1"}

RaceCmds ==
    {<<c, k>> : c \in {"DEL", "LPOP"}, k \in RaceKeys}
    \cup {<<"EXPIRE", k, s>> : k \in RaceKeys, s \in IntTokens}

RaceNext ==
    \/ \E tokens \in RaceCmds : HandleDel(tokens)
    \/ DelStep
    \/ \E tokens \in RaceCmds : HandleExpire(tokens)
    \/ ExpireGet
    \/ ExpireSet
    \/ \E k \in RaceKeys, v \in Vals : Set(k, v, NoTtl)
    \/ \E k \in RaceKeys : DelItem(k)
    \/ Cleanup
    \/ Tick

SpecRace == CmdInit /\ [][RaceNext]_vars

\* ------------------------------------------------------------- claims
\* C1: get(k, d) returns the stored value only when the entry has no expiry
\* or an expiry strictly later than the current time; when the expiry is
\* less than or equal to the current time it returns d, removes the entry,
\* and `k in store` is False, swept or not.
C1_ExpiredNeverRead ==
    [][\A k \in Keys :
        /\ (last'.op = "get" /\ last'.key = k /\ Get(k, NullDefault)) =>
             /\ \A p \in ItemOf(store, k) :
                   (p[2] # NoExpiry /\ p[2] <= now) =>
                       (last'.ret = NullDefault /\ ~HasKey(store', k))
             /\ last'.ret # NullDefault =>
                   \E p \in ItemOf(store, k) :
                       last'.ret = p[1] /\ (p[2] = NoExpiry \/ p[2] > now)
        /\ (last'.op = "contains" /\ last'.key = k /\ ContainsOp(k)) =>
             \A p \in ItemOf(store, k) :
                   (p[2] # NoExpiry /\ p[2] <= now) =>
                       (last'.ret = "False" /\ ~HasKey(store', k))
      ]_vars

\* a get or a membership test found an expired, unswept entry
C1_Witness ==
    /\ last.op \in {"get", "contains"}
    /\ last.flag
    /\ last.ret \in {NullDefault, "False"}
    /\ ~HasKey(store, last.key)

\* C2: set(k, v) followed by get(k), with no expiry, delete or clear of k in
\* between, returns v whatever happens to other keys and whatever the reaper
\* sweeps.
C2_SetThenGet ==
    [][\A k \in Keys :
        (last'.op = "get" /\ last'.key = k /\ Get(k, NullDefault)) =>
            \A p \in wrote[k] :
                (p[2] = NoExpiry \/ p[2] > now) => last'.ret = p[1]
      ]_vars

\* a get returned the value of an earlier set while another key is stored
C2_Witness ==
    /\ last.op = "get"
    /\ \E p \in wrote[last.key] : last.ret = p[1]
    /\ Len(store) = 2

\* C3: set gives the entry expiry now+ttl, else now+default_ttl, else none;
\* a set on an existing key replaces value and expiry, so that the lifetime
\* of the entry is the one of the latest set alone.
C3_SetExpiry ==
    [][\A k \in Keys :
        /\ LET v == last'.value
               ttl == last'.ttl IN
             (last'.op = "set" /\ last'.key = k /\ Set(k, v, ttl)) =>
               /\ ItemOf(store', k) =
                    {<<v, IF ttl # NoTtl THEN now + ttl
                          ELSE IF default_ttl # NoTtl THEN now + default_ttl
                          ELSE NoExpiry>>}
               /\ Cardinality({i \in 1..Len(store') : store'[i].key = k}) = 1
               /\ \A j \in Keys \ {k} : ItemOf(store', j) = ItemOf(store, j)
        /\ (last'.op = "get" /\ last'.key = k /\ Get(k, NullDefault)) =>
             \A p \in wrote[k] :
                 (last'.ret = p[1]) <=> (p[2] = NoExpiry \/ p[2] > now)
      ]_vars

\* a set without ttl took the default, and a set replaced another expiry
C3_Witness ==
    /\ last.op = "set"
    /\ last.flag
    /\ last.ttl = NoTtl
    /\ default_ttl # NoTtl
    /\ ItemOf(store, last.key) = {<<last.value, now + default_ttl>>}

\* C4: after prepend(k, v), keys() has k at index 0, k occurs exactly once
\* and all other keys keep their relative order, whether or not k was
\* already present.  (The prepend writes a live entry: no ttl or a ttl > 0.)
C4_PrependFront ==
    [][\A k \in Keys, v \in Vals, ttl \in (Ttls \ {0}) \cup {NoTtl} :
        (last'.op = "prepend" /\ Prepend(k, v, ttl)) =>
            LET after == StoreKeys(store', now)
                before == StoreKeys(store, now)
            IN  /\ Len(after) >= 1
                /\ after[1] = k
                /\ Cardinality({i \in 1..Len(after) : after[i] = k}) = 1
                /\ SelectSeq(after, LAMBDA x : x # k) =
                       SelectSeq(before, LAMBDA x : x # k)
      ]_vars


\* the entries a read can return at time t
Readable(s, t) == SelectSeq(s, LAMBDA x : Live(x.expiry, t))

\* the reply of a GET k handled at time t in store s
GetReply(s, k, t) == Response(Str(GetRet(s, k, NullDefault, t)))

\* C5: EXPIRE k s on a readable key replies OK, keeps the value of the key
\* and makes GET k reply the value until s seconds have elapsed and NULL
\* from then on; EXPIRE on an absent or expired key replies NULL and creates
\* no entry.
C5_Expire ==
    [][\A k \in Keys, s \in IntTokens :
        \* answered by the first step: the key was not readable
        /\ (nrecv' = nrecv + 1 /\ conn'.cmd = <<"EXPIRE", k, s>>
              /\ conn'.pc = "idle") =>
             /\ ~\E p \in ItemOf(store, k) : Live(p[2], now)
             /\ conn'.reply = "NULL\n"
             /\ ~HasKey(store', k)
        \* answered by the third step: the key was readable at receipt
        /\ (conn.pc = "expire_set" /\ conn.cmd = <<"EXPIRE", k, s>>
              /\ conn'.pc = "idle") =>
             /\ conn'.reply = "OK\n"
             /\ \E p \in conn.pre :
                  /\ ItemOf(store', k) = {<<p[1], now + ParseInt(s)>>}
                  /\ \A t \in now..(MaxTime + MaxTtl + 1) :
                       GetReply(store', k, t) =
                           IF t < now + ParseInt(s) THEN p[1] \o "\n"
                           ELSE "NULL\n"
      ]_vars

\* C6: DEL k and LPOP k behave identically: on a readable key the reply is
\* OK and the key is removed, so that the next GET k replies NULL; on an
\* absent or expired key the reply is NULL and the store is unchanged.
C6_Del ==
    [][\A c \in {"DEL", "LPOP"}, k \in Keys :
        /\ (nrecv' = nrecv + 1 /\ conn'.cmd = <<c, k>> /\ conn'.pc = "idle") =>
             /\ ~\E p \in ItemOf(store, k) : Live(p[2], now)
             /\ conn'.reply = "NULL\n"
             /\ Readable(store', now) = Readable(store, now)
        /\ (conn.pc = "del" /\ conn.cmd = <<c, k>> /\ conn'.pc = "idle") =>
             /\ conn'.reply = "OK\n"
             /\ ~HasKey(store', k)
             /\ GetReply(store', k, now) = "NULL\n"
      ]_vars

\* the commands that fail validation and the message of each
InvalidCases ==
    {<<<<"BOGUS">>, "Unknown command: BOGUS">>,
     <<<<"SET", "k1">>, "Too few arguments. Usage: SET key value">>,
     <<<<"GET">>, "Too few arguments. Usage: GET key">>,
     <<<<"DEL">>, "Too few arguments. Usage: DEL key">>,
     <<<<"ECHO">>, "Too few arguments. Usage: ECHO message ...">>,
     <<<<"EXPIRE", "k1">>, "Too few arguments. Usage: EXPIRE key seconds">>,
     <<<<"GET", "k1", "k2">>, "Too many arguments. Usage: GET key">>,
     <<<<"EXPIRE", "k1", "abc">>, "Argument 2 must be a number">>}

\* C7: when validation fails the dispatcher sends exactly one reply
\* 'ERROR: <message>\n', runs no handler, leaves the store unchanged and
\* returns True, and a following PING is answered 'PONG\n'; for
\* 'SET onlykey' the message is 'Too few arguments. Usage: SET key value'.
C7_ValidationError ==
    [][/\ nrecv' = nrecv + 1 =>
            \A c \in InvalidCases :
                conn'.cmd = c[1] =>
                  /\ conn'.reply = "ERROR: " \o c[2] \o "\n"
                  /\ replies' = Append(replies, nrecv + 1)
                  /\ conn'.sent = 1
                  /\ ~conn'.ran
                  /\ store' = store
                  /\ conn'.ret
                  /\ conn'.pc = "idle"
       /\ (conn.validated /\ ~conn.ran /\ HandleCommand(<<"PING">>)) =>
              (conn'.reply = "PONG\n" /\ conn'.sent = 1)
      ]_vars

\* 'SET k1' was rejected while the store holds an entry
C7_Witness ==
    /\ conn.cmd = <<"SET", "k1">>
    /\ conn.reply = "ERROR: Too few arguments. Usage: SET key value\n"
    /\ conn.pc = "idle"
    /\ conn.validated /\ ~conn.ran
    /\ store # <<>>

\* the token lists of Cmds whose first token, upper-cased, is EXIT
ExitCmds == {<<"EXIT">>, <<"exit", "k1">>}

\* C8: handle_command returns False exactly when the first token,
\* upper-cased, is EXIT; it then sends exactly 'Goodbye!\n', consults
\* neither the validator nor the handler table and leaves the store
\* unchanged; for every other token list it returns True.
C8_Exit ==
    [][/\ nrecv' = nrecv + 1 =>
              IF conn'.cmd \in ExitCmds
              THEN /\ ~conn'.ret
                   /\ conn'.pc = "closed"
                   /\ conn'.reply = "Goodbye!\n"
                   /\ replies' = Append(replies, nrecv + 1)
                   /\ conn'.sent = 1
                   /\ ~conn'.validated
                   /\ ~conn'.ran
                   /\ store' = store
              ELSE conn'.ret /\ conn'.pc # "closed"
       /\ (nrecv' = nrecv /\ conn' # conn) =>
              (conn'.ret /\ conn'.pc # "closed")
      ]_vars

\* EXIT closed a connection whose store holds an entry
C8_Witness ==
    /\ conn.pc = "closed"
    /\ conn.cmd = <<"exit", "k1">>
    /\ ~conn.ret
    /\ conn.reply = "Goodbye!\n"
    /\ store # <<>>

\* C9: if a handler raises while executing a validated command, the
\* dispatcher sends 'ERROR: <exception message>\n' instead of a normal
\* reply, returns True, and processes the next command normally.
C9_HandlerError ==
    [][/\ (conn.pc = "del" /\ ~HasKey(store, conn.cmd[2]) /\ conn' # conn) =>
              /\ conn'.raised
              /\ conn'.reply = "ERROR: '" \o conn.cmd[2] \o "'\n"
              /\ replies' = Append(replies, nrecv)
              /\ conn'.sent = 1
              /\ conn'.ret
              /\ conn'.pc = "idle"
       /\ (conn.raised /\ HandleCommand(<<"PING">>)) =>
              (conn'.reply = "PONG\n" /\ conn'.sent = 1 /\ ~conn'.raised)
       /\ \A k \in Keys :
            (conn.raised /\ HandleCommand(<<"GET", k>>)) =>
              (conn'.reply = GetReply(store, k, now) /\ ~conn'.raised)
      ]_vars

\* the delete of DEL k1 raised KeyError and the error was sent
C9_Witness ==
    /\ conn.raised
    /\ conn.reply = "ERROR: 'k1'\n"
    /\ conn.pc = "idle"

\* text ends in exactly one line terminator
EndsNl(text) ==
    /\ Len(text) >= 2
    /\ SubSeq(text, Len(text), Len(text)) = "\n"
    /\ SubSeq(text, Len(text) - 1, Len(text) - 1) # "\n"

C11_WorkerEnds ==
    /\ conn.pc # "died"
    /\ (conn.pc = "idle" /\ conn.cmd # <<>>) => conn.sent = 1
    /\ (conn.cmd # <<>> /\ Upper(conn.cmd[1]) = "DEL" /\ conn.pre # {}) =>
           conn.reply = "OK\n"

\* C12: validate reports the first failing check only, in the order empty
\* list, unknown verb, too few tokens, too many tokens, non-integer token
\* at an integer position, and (True, '') when no check fails.
C12_ValidateOrder ==
    last.op = "validate" =>
        LET parts == last.keys
            verb == Upper(parts[1])
            known == parts # <<>> /\ verb \in Registry
            few == known /\ Len(parts) < MinArgs(verb)
            many == known /\ verb # "ECHO" /\ Len(parts) > MinArgs(verb)
            badint == known /\ ~few /\ ~many /\ verb = "EXPIRE"
                      /\ parts[3] \notin {"0", "1"}
        IN  /\ parts = <<>> => (~last.flag /\ last.ret = "Empty command")
            /\ (parts # <<>> /\ ~known) =>
                   (~last.flag /\ last.ret = "Unknown command: " \o verb)
            /\ few => /\ ~last.flag
                      /\ last.ret = "Too few arguments. Usage: " \o Usage(verb)
            /\ many => /\ ~last.flag
                       /\ last.ret = "Too many arguments. Usage: " \o Usage(verb)
            /\ badint => /\ ~last.flag
                         /\ last.ret = "Argument 2 must be a number"
            /\ (known /\ ~few /\ ~many /\ ~badint) =>
                   (last.flag /\ last.ret = "")

\* a list with two failures, too many tokens and a non-integer where an
\* integer is due, was reported as too many
C12_Witness ==
    /\ last.op = "validate"
    /\ last.keys = <<"EXPIRE", "k1", "abc", "abc">>
    /\ ~last.flag
    /\ last.ret = "Too many arguments. Usage: EXPIRE key seconds"

\* C13: a SET with more than three tokens is not rejected: the tokens from
\* position 2 on are joined with single spaces into the value, the reply is
\* OK and a GET of the key returns the joined value; a verb other than SET
\* with a token too many is rejected as too-many and writes nothing.
C13_SetMerge ==
    [][(nrecv' # nrecv \/ conn' # conn) =>
         LET c == conn'.cmd IN
         /\ (Len(c) = 4 /\ Upper(c[1]) = "SET") =>
                /\ conn'.reply = "OK\n"
                /\ conn'.pc = "idle"
                /\ \E p \in ItemOf(store', c[2]) :
                       p[1] = c[3] \o " " \o c[4]
         /\ (Len(c) = 2 /\ Upper(c[1]) = "GET") =>
                \A p \in ItemOf(store, c[2]) :
                    (p[1] = "v1 v2" /\ (p[2] = NoExpiry \/ p[2] > now)) =>
                        conn'.reply = "v1 v2\n"
         /\ (c # <<>> /\ Upper(c[1]) \in Registry \ {"SET", "ECHO", "EXIT"}
               /\ Len(c) > MinArgs(Upper(c[1]))) =>
                /\ conn'.reply = "ERROR: Too many arguments. Usage: "
                                    \o Usage(Upper(c[1])) \o "\n"
                /\ store' = store
      ]_vars

\* a GET was answered with the value joined from two tokens of a SET
C13_Witness ==
    /\ conn.cmd = <<"GET", "k1">>
    /\ conn.pc = "idle"
    /\ conn.reply = "v1 v2\n"

\* C14 as stated: through the dispatcher every cache verb is accepted by
\* the validator and routed to a handler; CREATECACHE users is answered
\* without error and CACHESET users u1 alice with OK.
C14_CacheVerbs ==
    (conn.pc = "idle" /\ conn.cmd # <<>>
       /\ conn.cmd[1] \in {"CREATECACHE", "CACHESET", "CACHEGET", "CACHEKEYS"}) =>
        /\ conn.ran
        /\ ~conn.raised
        /\ SubSeq(conn.reply, 1, 6) # "ERROR:"
        /\ conn.cmd[1] = "CACHESET" => conn.reply = "OK\n"

\* C15 as stated: delete_cache(c) returns True when c was live and False
\* otherwise, and after a True the cache is gone: it is not in the outer
\* store, so that get returns the default, get_cache_size 0 and list_caches
\* does not name it.
C15_DeleteCache ==
    (last.op = "delete_cache" /\ last.pc = "idle") =>
        /\ ~last.raised
        /\ last.ret \in {"True", "False"}
        /\ last.ret = "True" =>
               /\ ~CacheLive(store, last.cache, now)
               /\ \A i \in 1..Len(StoreKeys(store, now)) :
                      StoreKeys(store, now)[i] # last.cache

\* C16 as stated: after delete_cache(c) returned True the stats block of c
\* is gone and the observers have received one delete event per key that
\* was in c and one delete_cache event.
C16_DeleteCacheStats ==
    (last.op = "delete_cache" /\ last.pc = "idle" /\ last.ret = "True") =>
        /\ last.cache \notin DOMAIN stats
        /\ Len(events) >= last.n + 1
        /\ events[Len(events)] =
               [type |-> "delete_cache", cache |-> last.cache, key |-> ""]
        /\ \A i \in 1..last.n :
               /\ events[Len(events) - i].type = "delete"
               /\ events[Len(events) - i].cache = last.cache

\* C17 as stated: for every cache with a stats block, stats.items is the
\* number of keys of the cache, and 0 when the cache is not live.
C17_StatsItems ==
    last.pc = "idle" =>
        \A c \in DOMAIN stats :
            stats[c].items = IF CacheLive(store, c, now)
                             THEN Len(CacheOf(store, c)) ELSE 0

C19_EntryTtl ==
    [][(calls' = calls + 1 /\ last'.op = "get") =>
          \A p \in wrote[<<last'.cache, last'.key>>] :
              last'.flag <=> (p[2] = NoExpiry \/ p[2] > now)
      ]_vars

\* C20 as stated: clear_cache(c) on a live cache returns True without
\* raising and leaves c live and empty with stats.items = 0; on a cache
\* that does not exist it returns False.
C20_ClearCache ==
    last.op = "clear_cache" =>
        /\ ~last.raised
        /\ last.ret \in {"True", "False"}
        /\ last.ret = "True" =>
               /\ HasKey(store, last.cache)
               /\ CacheOf(store, last.cache) = <<>>
               /\ stats[last.cache].items = 0

\* C21 as stated: every set(c, k, v) delivers one set event and every
\* get(c, k) one get event, with the cache name and the key of the call, to
\* an observer registered for that kind.
C21_SetGetEvents ==
    [][(calls' = calls + 1 /\ last'.op \in {"set", "get"}) =>
          /\ Len(events') = Len(events) + 1
          /\ events'[Len(events')] =
                 [type |-> last'.op, cache |-> last'.cache, key |-> last'.key]
      ]_vars

\* the calls of one phase in the record of a delivery, in order
CallsIn(b, ph) == SelectSeq(b.called, LAMBDA x : x.phase = ph)

\* every observer of the set D is called once in phase ph
OnceEach(b, ph, D) ==
    /\ Len(CallsIn(b, ph)) = Cardinality(D)
    /\ {CallsIn(b, ph)[i].observer : i \in 1..Len(CallsIn(b, ph))} = D

\* no call of a global observer comes before a call of a scoped one
ScopedFirst(b) ==
    \A i, j \in 1..Len(b.called) :
        (b.called[i].phase = "global" /\ b.called[j].phase = "scoped") => j < i

\* C22 as stated: when a delivery is over, _trigger_event has returned, every
\* observer that was registered for the (cache, kind) pair and every global
\* observer of the kind has been called exactly once, and the scoped ones
\* were called before the global ones.
C22_DeliveryOrder ==
    (bus.pc = "idle" /\ bus.outcome # "none") =>
        /\ bus.outcome = "returned"
        /\ OnceEach(bus, "scoped", bus.due.scoped)
        /\ OnceEach(bus, "global", bus.due.global)
        /\ ScopedFirst(bus)

\* C23: an observer that raises does not stop the delivery.  The step that
\* calls it leaves the loop running with the registrations as they were,
\* and changes nothing else; a delivery that returns has called every
\* observer registered for the event once, the scoped ones first, raising
\* or not; and a delivery that leaves _trigger_event with an exception has
\* called a one-shot observer, so no failure comes from a raising one.
C23_RaiseIsolated ==
    [][/\ (/\ bus.pc \in {"scoped", "global"}
           /\ Len(bus'.called) = Len(bus.called) + 1
           /\ bus'.called[Len(bus'.called)].observer = "raises") =>
              /\ bus'.pc = bus.pc
              /\ bus'.outcome = "running"
              /\ bus'.event_handlers = bus.event_handlers
              /\ bus'.global_handlers = bus.global_handlers
              /\ UNCHANGED <<now, store, default_ttl, last, wrote, stats,
                             events, disk, mgr, thr>>
       /\ (bus.pc # "idle" /\ bus'.outcome = "returned") =>
              /\ OnceEach(bus', "scoped", bus'.due.scoped)
              /\ OnceEach(bus', "global", bus'.due.global)
              /\ ScopedFirst(bus')
       /\ (bus.pc # "idle" /\ bus'.outcome \notin {"running", "returned"}) =>
              \E i \in 1..Len(bus'.called) : bus'.called[i].observer = "once"
      ]_vars

\* a delivery has returned in which an observer raised and observers of
\* both phases were called after it
C23_Witness ==
    /\ bus.pc = "idle"
    /\ bus.outcome = "returned"
    /\ Len(bus.called) = 3
    /\ bus.called[1].observer = "raises"
    /\ bus.called[1].phase = "scoped"
    /\ bus.called[2].phase = "scoped"
    /\ bus.called[3].phase = "global"

\* C28: with set calls running concurrently on one key and the reaper
\* sweeping beside them, every entry in the map is the (value, expiry) pair
\* of one set call, whole; it is the pair of the call that took the lock
\* last; a key holds one entry; and the key is missing after a committed
\* set only when that entry has expired.
C28_ConcurrentSet ==
    /\ \A i \in 1..Len(store) :
          /\ <<store[i].key, store[i].value, store[i].expiry>> \in thr.written
          /\ store[i].key \in DOMAIN thr.final
          /\ <<store[i].value, store[i].expiry>> = thr.final[store[i].key]
    /\ \A i, j \in 1..Len(store) : store[i].key = store[j].key => i = j
    /\ \A k \in DOMAIN thr.final :
          ~HasKey(store, k) => Expired(thr.final[k][2], now)

\* two set calls on k1 with different expiries overlapped, both have
\* written, and the key holds an entry
C28_Witness ==
    /\ thr.overlap
    /\ thr.nsets = 2
    /\ \A c \in Conns : thr.setters[c] = NoPending
    /\ Cardinality({w[3] : w \in thr.written}) = 2
    /\ HasKey(store, "k1")

\* key k has an entry in the map whose expiry has passed
HasExpired(k) ==
    \E i \in 1..Len(store) :
        store[i].key = k /\ store[i].expiry # NoExpiry /\ store[i].expiry <= now

\* C29: while the store is not stopped, an entry whose expiry has passed
\* is removed (or replaced by a live one) without any read being needed; and a get or contains made
\* when the key has no live entry returns the default (False) and leaves
\* the key out of the map.
C29_ReaperRemoves ==
    /\ \A k \in ThreadKeys :
          (HasExpired(k) /\ ~thr.stop_event)
             ~> (~HasExpired(k) \/ thr.stop_event)
    /\ [][(last' # last /\ last'.op \in {"get", "contains"}
              /\ \A p \in ItemOf(store, last'.key) :
                    p[2] # NoExpiry /\ p[2] <= now) =>
             /\ last'.ret = (IF last'.op = "get" THEN last'.value ELSE "False")
             /\ ~HasKey(store', last'.key)]_vars

\* the reaper has removed an entry and the last call on the store was the
\* write: no read came after it
C29_Witness ==
    /\ "k1" \in thr.reaped
    /\ last.op = "set"
    /\ ~HasKey(store, "k1")
    /\ ~thr.stop_event

\* C30: once a stop() has returned the stop flag is set and the reaper
\* thread has ended and stays ended; from then on no sweep removes
\* anything, the map changes only through a call, and get and set behave
\* as on a running store: a set stores its pair, a get returns the live
\* value or the default and removes an expired entry on the way.
C30_Stop ==
    [][thr.stops >= 1 =>
          /\ thr.stop_event /\ thr.reaper = "done"
          /\ thr'.stop_event /\ thr'.reaper = "done"
          /\ thr'.reaped = thr.reaped
          /\ store' # store => (last' # last \/ thr'.setters # thr.setters)
          /\ (last' # last /\ last'.op = "get") =>
                /\ last'.ret = GetRet(store, last'.key, last'.value, now)
                /\ store' = GetStore(store, last'.key, now)
          /\ \A c \in Conns :
                (thr.setters[c] # NoPending /\ thr'.setters[c] = NoPending) =>
                    ItemOf(store', thr.setters[c].key) =
                       {<<thr.setters[c].value, thr.setters[c].expiry>>}
      ]_vars

\* stop() has returned twice, and a get made after that has removed an
\* expired entry
C30_Witness ==
    /\ thr.stops = 2
    /\ last.op = "get"
    /\ last.flag
    /\ last.ret = PyNone

\* C24 as stated: a load_persistent(c) made after a persist(c) has
\* succeeded installs cache c with the mapping and the stats block that
\* persist wrote.
C24_RoundTrip ==
    [][(calls' = calls + 1 /\ last'.op = "load_persistent"
           /\ last'.cache \in DOMAIN disk.saved) =>
          /\ CacheLive(store', last'.cache, now)
          /\ CacheOf(store', last'.cache) =
                LoadsData(disk.saved[last'.cache].data)
          /\ last'.cache \in DOMAIN stats'
          /\ stats'[last'.cache] = disk.saved[last'.cache].stats
      ]_vars

\* C25 as stated: when a new manager has been constructed on the directory,
\* every cache that has a file there, compressed or plain, is loaded.
C25_BootLoadsAll ==
    [][mgr'.gen = mgr.gen + 1 =>
          \A f \in DOMAIN disk.files :
              /\ CacheLive(store', f[1], now)
              /\ CacheOf(store', f[1]) =
                    LoadsData(disk.files[FileFor(disk.files, f[1])].data)
      ]_vars

\* C26 as stated: load_persistent(c) returns True exactly when it installed
\* the cache from a file, and when it returns False the caches and the
\* stats blocks are as before the call.
C26_LoadResult ==
    [][(calls' = calls + 1 /\ last'.op = "load_persistent") =>
          /\ last'.ret = "True" <=>
                (mgr.dir /\ HasFile(disk.files, last'.cache))
          /\ last'.ret = "False" => (store' = store /\ stats' = stats)
      ]_vars

\* stop() has returned and no call was made since
StopReturned == mgr.stopped /\ last.op = "stop" /\ last.pc = "idle"

\* the file persist writes for cache c holds the content of the cache
FileCurrent(c) ==
    /\ PathOf(mgr, c) \in DOMAIN disk.files
    /\ LoadsData(disk.files[PathOf(mgr, c)].data) = CacheOf(store, c)

C31_PrependDefaultTtl ==
    [][(/\ last'.op = "prepend" /\ last'.ttl = NoTtl
        /\ default_ttl # NoTtl
        /\ now' = now
        /\ ~HasKey(store, last'.key)
        /\ store' = StorePrepend(store, last'.key, last'.value, NoTtl, now)) =>
          ItemOf(store', last'.key) =
             ItemOf(StoreSet(store, last'.key, last'.value, NoTtl,
                             default_ttl, now), last'.key)
      ]_vars

\* C36 as stated: right after prepend(k, v, ttl) with a ttl, the entry of k
\* holds v with the expiry derived from this ttl, whether or not k was
\* already in the store.
C36_PrependStores ==
    [][(/\ last'.op = "prepend" /\ last'.ttl # NoTtl
        /\ now' = now
        /\ store' = StorePrepend(store, last'.key, last'.value, last'.ttl,
                                 now)) =>
          ItemOf(store', last'.key) =
             {<<last'.value, PrependExpiry(last'.ttl, now)>>}
      ]_vars

\* C32 as stated: delete of a key whose entry is present but expired and
\* not yet swept behaves as delete of an absent key: it raises the
\* not-found error.
C32_ExpiredLikeAbsent ==
    [][(/\ last'.op = "del" /\ last' # last
        /\ store' = DictDel(store, last'.key)
        /\ HasKey(store, last'.key)
        /\ \A it \in ItemOf(store, last'.key) : ~Live(it[2], now)) =>
          last'.raised
      ]_vars

\* C33: the list keys() returns holds no key whose entry was expired when
\* the call swept the store, holds every non-expired key exactly once, and
\* is in store order.
C33_KeysListing ==
    [][(/\ last'.op = "keys" /\ now' = now
        /\ store' = StoreCleanup(store, now)
        /\ (last' # last \/ store' = store)) =>
          LET ks == last'.keys
              listed == {ks[j] : j \in 1..Len(ks)}
          IN  /\ \A i \in 1..Len(store) :
                    IF Live(store[i].expiry, now)
                    THEN Cardinality({j \in 1..Len(ks) :
                                         ks[j] = store[i].key}) = 1
                    ELSE store[i].key \notin listed
              /\ listed \subseteq {store[i].key : i \in 1..Len(store)}
              /\ ks = KeyList(SelectSeq(store, LAMBDA x : x.key \in listed))
      ]_vars

\* keys() swept an expired entry away and listed the remaining key
C33_Witness ==
    /\ last.op = "keys" /\ last.flag
    /\ Len(last.keys) = 1
    /\ Len(store) = 1

C35_FailedPersistKeepsFile ==
    (/\ SnapIdle /\ mgr.snap.ret = "False"
     /\ mgr.snap.before # {}
     /\ \A f \in mgr.snap.before : ~IsTorn(f)) =>
        /\ Loadable(disk.files, mgr.snap.cache)
        /\ {disk.files[PathOf(mgr, mgr.snap.cache)]} = mgr.snap.before

\* C39 as stated: when a cache this manager held has been removed with
\* delete_cache and stop() has returned, the manager constructed next on
\* the same directory does not hold the cache.  (delete_cache keeps the
\* stats block: a block without a store entry marks the deleted cache.)
C39_DeletedStaysDeleted ==
    [][\A c \in PersistCaches :
         (/\ mgr'.gen = mgr.gen + 1
          /\ StopReturned
          /\ c \in DOMAIN stats
          /\ ~HasKey(store, c)) =>
            ~CacheLive(store', c, now')
      ]_vars

\* C40 as stated: a call of a log method that has begun returns in the end.
C40_LogCallReturns ==
    \A t \in LogThreads :
        (thr.log.pc[t] = "log_acquire") ~> (thr.log.pc[t] = "idle")

\* C37 as stated: the set that ends EXPIRE k s writes the value k holds at
\* that moment, and only when k is present and not expired then: it puts
\* back no older value and creates no entry.
C37_ExpireKeepsCurrent ==
    [][(conn.pc = "expire_set" /\ conn'.pc = "idle") =>
          \E p \in ItemOf(store, conn.cmd[2]) :
              /\ Live(p[2], now)
              /\ \A q \in ItemOf(store', conn.cmd[2]) : q[1] = p[1]
      ]_vars

\* C38 as stated: whatever happens between its existence check and its
\* delete, DEL k or LPOP k is answered OK or NULL.
C38_DelReplies ==
    (/\ conn.pc = "idle" /\ conn.sent = 1
     /\ conn.cmd # <<>>
     /\ conn.cmd[1] \in {"DEL", "LPOP"}) =>
        conn.reply \in {"OK\n", "NULL\n"}

====
